---------------------------- MODULE Spec2Model ----------------------------
(***************************************************************************)
(* NeuroFlow orchestration graph (src/graph.py), its nodes (src/agents)    *)
(* and the caller run_agent (src/app.py).                                  *)
(*                                                                         *)
(* Representation.                                                         *)
(*  - The checkpointed graph state (NeuroFlowState) is the record st; a    *)
(*    node returns an update: a function from some of the channel names    *)
(*    to new values.  A superstep runs every node of `running` against the *)
(*    same st, buffers the updates in `writes` and commits them when the   *)
(*    last node of the superstep has finished (Pregel semantics of the     *)
(*    compiled StateGraph).                                                *)
(*  - A text is a natural number: 0 is the empty string, t > 0 is a        *)
(*    non-empty text produced during turn t.                               *)
(*  - Confidences are percents (0..100), quality scores are tenths         *)
(*    (10, 4, 2), crash scores are thousandths (0..1000).                  *)
(*  - Channels that no node and no router reads (session_id, priority,     *)
(*    task_queue, user_preferences) are left out.                          *)
(***************************************************************************)
EXTENDS Integers, Sequences, FiniteSets, TLC

\* ------------------------------------------------------------------ bounds
MaxTurns == 2          \* run_agent calls explored per session
MaxPrior == 21         \* ledger passes replayed before a checked pass
MaxLedgerPasses == 2   \* checked ledger passes after the replay
MaxPriorRuns == 6      \* detector runs replayed before a checked run
MaxDetectorRuns == 2   \* checked detector runs after the replay
MaxCogPasses == 2      \* passes of the cognitive predictor from a drawn prior state

\* ------------------------------------------------------- program constants
MaxEscalation == 2     \* graph.py:276  escalation < 2
MaxRetry == 1          \* graph.py:289  retry_count < 1
TxCap == 20            \* dopamine_manager.py:181  all_transactions[-20:]
BalanceMax == 100      \* dopamine_manager.py:151
InitialBalance == 100  \* dopamine_manager.py:97 / state.py:68
InterventionCap == 5   \* pattern_interrupt.py:245
SentimentCap == 10     \* pattern_interrupt.py:240
MinGap == 5            \* dopamine_manager.py:43
MaxGap == 30           \* dopamine_manager.py:43
ShowThreshold == 35    \* pattern_interrupt.py:207  confidence < 0.35
HighConfidence == 70   \* graph.py:276  confidence > 0.7
LowConfidence == 30    \* graph.py:278  confidence > 0.3
FallbackConfidence == 60 \* graph.py:274
ApprovalSteps == 5     \* graph.py:193  len(steps) > 5
ApprovalMinutes == 60  \* graph.py:193  estimated > 60
DefaultDuration == 60  \* dopamine_manager.py:156
LowEnergy == 5         \* dopamine_manager.py:117  energy < 5

Nodes ==
  { "session_manager", "context_architect", "human_approval_gate",
    "focus_builder", "cognitive_predictor", "pattern_interrupt",
    "pattern_escalation", "time_reality", "dopamine_manager",
    "response_generator", "quality_gate", "response_retry" }

\* session_manager.py:11
INTENTS ==
  { "start_task", "stuck", "distracted", "check_in", "general_chat",
    "take_break" }

\* graph.py:434  interrupt_before
InterruptBefore == { "human_approval_gate" }

OutputFields ==
  { "cognitive_output", "context_output", "pattern_output", "time_output",
    "focus_output", "dopamine_output" }

VARIABLES
  st,        \* checkpointed graph state of the session's thread
  sess,      \* st.session_state of the caller: the entities kept between turns
  running,   \* nodes of the current superstep that have not run yet
  writes,    \* updates of the nodes of this superstep that have run, in order
  gstatus,   \* "none" | "running" | "interrupted" | "done" | "failed"
  pc,        \* position of run_agent: "idle" | "invoke1" | "invoke2"
  turn,      \* number of run_agent calls started
  ret,       \* what the last run_agent call returned
  hist       \* history of the current pass (observations only, never read by the program)

vars == << st, sess, running, writes, gstatus, pc, turn, ret, hist >>

\* ------------------------------------------------------------- small helpers
Min(a, b) == IF a < b THEN a ELSE b
Max(a, b) == IF a > b THEN a ELSE b

\* dopamine_manager.py:151  max(0, min(100, balance))
Clamp(x, lo, hi) == Max(lo, Min(hi, x))

\* Python's seq[-n:]
TakeLast(s, n) ==
  IF Len(s) <= n THEN s ELSE SubSeq(s, Len(s) - n + 1, Len(s))

RECURSIVE SumPoints(_)
SumPoints(txs) ==
  IF txs = << >> THEN 0 ELSE txs[1].points + SumPoints(Tail(txs))

\* ------------------------------------------------------------- entity records
\* state.py:27-31  CognitiveState()
DefaultCognitive ==
  [ focus_level |-> "medium", energy_level |-> 7, dopamine_balance |-> 50,
    likelihood |-> 0 ]

\* state.py:44-51  PatternDetection().model_dump(): there is no confidence field
DefaultPattern ==
  [ current_pattern |-> "none", interventions_attempted |-> << >>,
    sentiment_trajectory |-> << >> ]

\* app.py:272  current_task = {}
EmptyTask ==
  [ present |-> FALSE, task_type |-> "general", estimated_duration |-> 0,
    realistic_duration |-> 0, n_steps |-> 0, n_ritual |-> 0, n_breaks |-> 0,
    environment |-> "unset", playlist |-> << >>, created |-> 0 ]

\* app.py:273  dopamine_economy = {}
EmptyEconomy ==
  [ present |-> FALSE, daily_balance |-> 0, transactions |-> << >>,
    forecast |-> "", next_reward_minutes |-> 0, reward_schedule |-> << >> ]

NoResponse == [ turn |-> 0, q |-> "empty" ]

\* Truthiness of a response text
Truthy(resp) == resp.q # "empty"

\* app.py:264-275  _init_session
InitSession ==
  [ cognitive |-> DefaultCognitive, pattern_detection |-> DefaultPattern,
    current_task |-> EmptyTask, dopamine_economy |-> EmptyEconomy,
    interaction_count |-> 0 ]

\* state.py:153-203  NeuroFlowState before the first invoke: every channel is
\* absent, which each reader replaces by the default of its state.get call
InitState ==
  [ user_input |-> [ empty |-> TRUE, turn |-> 0, directives |-> 0 ],
    messages |-> << >>,
    interaction_count |-> 0,
    intent |-> "general_chat",
    current_task |-> EmptyTask,
    cognitive_state |-> DefaultCognitive,
    pattern_detection |-> DefaultPattern,
    dopamine_economy |-> EmptyEconomy,
    cognitive_output |-> 0, context_output |-> 0, pattern_output |-> 0,
    time_output |-> 0, focus_output |-> 0, dopamine_output |-> 0,
    pattern_escalation_level |-> 0,
    response_retry_count |-> 0,
    quality_score |-> 10,
    needs_human_approval |-> FALSE,
    response |-> NoResponse ]

\* state.py:160  messages uses the add_messages reducer, every other channel
\* is overwritten by an update
Apply(s, u) ==
  [ k \in DOMAIN s |->
      IF k \in DOMAIN u
        THEN IF k = "messages" THEN s[k] \o u[k] ELSE u[k]
        ELSE s[k] ]

RECURSIVE ApplyAll(_, _)
ApplyAll(s, ws) ==
  IF ws = << >> THEN s ELSE ApplyAll(Apply(s, ws[1].update), Tail(ws))


\* ------------------------------------------------------------------ routers
\* graph.py:247-256
RouteIntent(s) ==
  IF s.intent = "start_task" THEN "start_task"
  ELSE IF s.intent \in { "stuck", "distracted" } THEN "stuck_or_distracted"
  ELSE IF s.intent \in { "check_in", "take_break" } THEN "check_in"
  ELSE "general_chat"

\* graph.py:270-274  the confidence the router works with: the one stored in
\* the pattern_detection dict, 0.0 when the dict has none, and 0.6 in place of
\* 0.0 when a pattern is recorded
RoutedConfidence(s) ==
  LET pattern == s.pattern_detection
      stored == IF "confidence" \in DOMAIN pattern THEN pattern.confidence ELSE 0
  IN  IF stored = 0 /\ pattern.current_pattern # "none"
        THEN FallbackConfidence
        ELSE stored

\* the severity router without its escalation cap
RoutePatternSeverity_NoCap(s) ==
  LET confidence == RoutedConfidence(s)
  IN  IF confidence > HighConfidence THEN "escalate"
      ELSE IF confidence > LowConfidence THEN "full_analysis"
      ELSE "quick_response"

\* graph.py:260-280
RoutePatternSeverity(s) ==
  LET confidence == RoutedConfidence(s)
      escalation == s.pattern_escalation_level
  IN  IF confidence > HighConfidence /\ escalation < MaxEscalation THEN "escalate"
      ELSE IF confidence > LowConfidence THEN "full_analysis"
      ELSE "quick_response"

\* the quality router without its retry cap
RouteQuality_NoCap(s) ==
  IF s.quality_score < 5 THEN "retry" ELSE "accept"

\* graph.py:284-291
RouteQuality(s) ==
  IF s.quality_score < 5 /\ s.response_retry_count < MaxRetry
    THEN "retry"
    ELSE "accept"

\* the approval gate with the edge to the cognitive predictor left out
FanOut_OneBranch == { "focus_builder" }

\* graph.py:380-381  the two edges that leave the approval gate
FanOut == { "focus_builder", "cognitive_predictor" }

\* graph.py:359-428  the edges of the graph; END is the empty set
Successors(n, s) ==
  CASE n = "session_manager" ->
         LET r == RouteIntent(s)
         IN  IF r = "start_task" THEN { "context_architect" }
             ELSE IF r = "stuck_or_distracted" THEN { "pattern_interrupt" }
             ELSE IF r = "check_in" THEN { "time_reality" }
             ELSE { "cognitive_predictor" }
    [] n = "context_architect" -> { "human_approval_gate" }
    [] n = "human_approval_gate" -> FanOut
    [] n = "focus_builder" -> { "dopamine_manager" }
    [] n = "cognitive_predictor" -> { "dopamine_manager" }
    [] n = "pattern_interrupt" ->
         LET r == RoutePatternSeverity(s)
         IN  IF r = "escalate" THEN { "pattern_escalation" }
             ELSE IF r = "full_analysis" THEN { "dopamine_manager" }
             ELSE { "response_generator" }
    [] n = "pattern_escalation" -> { "pattern_interrupt" }
    [] n = "time_reality" -> { "dopamine_manager" }
    [] n = "dopamine_manager" -> { "response_generator" }
    [] n = "response_generator" -> { "quality_gate" }
    [] n = "quality_gate" ->
         IF RouteQuality(s) = "retry" THEN { "response_retry" } ELSE { }
    [] n = "response_retry" -> { "response_generator" }

\* -------------------------------------------------------------------- nodes
\* a session manager that stores whatever label the classifier returned
SessionManagerNode_NoValidation(s, label) ==
  [ intent |-> label, interaction_count |-> s.interaction_count + 1 ]

\* session_manager.py:43-113.  label is the intent of the classifier's JSON,
\* "fail" when the call or the parsing raised
SessionManagerNode(s, label) ==
  IF s.user_input.empty
    THEN [ intent |-> "general_chat",
           interaction_count |-> s.interaction_count + 1 ]
    ELSE [ intent |-> IF label \in INTENTS THEN label ELSE "general_chat",
           interaction_count |-> s.interaction_count + 1 ]

\* context_architect.py:58-118  lengths of BREAK_ACTIVITIES / INITIATION_RITUALS
CannedBreaks(task_type) == 4

\* context_architect.py:310,318  dict.get(task_type, <the "general" list>):
\* the key of the canned list a task type selects
CannedTypes == { "coding", "writing", "revision", "general" }

CannedKey(task_type) ==
  IF task_type \in CannedTypes THEN task_type ELSE "general"

CannedRitual(task_type) ==
  CASE task_type = "coding" -> 9
    [] task_type = "writing" -> 8
    [] task_type = "revision" -> 5
    [] OTHER -> 5

\* context_architect.py:374-411  _fallback_package
FallbackPackage ==
  [ kind |-> "json", task_type |-> "general", est |-> 30, n_steps |-> 4,
    has_ritual |-> TRUE, n_env_prep |-> CannedRitual("general"),
    n_breaks |-> CannedBreaks("general"), labels_ok |-> TRUE ]

\* context_architect.py:276-290  the package the node goes on with
ParsedPackage(plan) == IF plan.kind = "fail" THEN FallbackPackage ELSE plan

\* context_architect.py:317 indexes context_package["initiation_ritual"], which
\* raises KeyError when the section is missing; :324 indexes m["label"]
ContextArchitectRaises(plan) ==
  LET pkg == ParsedPackage(plan)
  IN  \/ ~pkg.has_ritual
      \/ ~pkg.labels_ok

\* context_architect.py:343  int(est * 1.5)
RealisticDuration(est) == (est * 3) \div 2

\* a planner that passes the generator's lists on as they are
ContextArchitectNode_NoRepair(s, plan, now) ==
  LET pkg == ParsedPackage(plan)
      own == IF plan.kind = "fail" THEN "general" ELSE "generator"
  IN  [ current_task |->
          [ present |-> TRUE, task_type |-> pkg.task_type,
            estimated_duration |-> pkg.est,
            realistic_duration |-> RealisticDuration(pkg.est),
            n_steps |-> pkg.n_steps, n_ritual |-> pkg.n_env_prep,
            n_breaks |-> pkg.n_breaks, ritual_from |-> own, breaks_from |-> own,
            environment |-> "planned", playlist |-> << >>, created |-> now ],
        context_output |-> now ]

\* context_architect.py:234-371
ContextArchitectNode(s, plan, now) ==
  LET pkg == ParsedPackage(plan)
      own == IF plan.kind = "fail" THEN "general" ELSE "generator"
      sparse_breaks == pkg.n_breaks < 2
      sparse_ritual == pkg.n_env_prep < 3
      breaks == IF sparse_breaks THEN CannedBreaks(CannedKey(pkg.task_type))
                ELSE pkg.n_breaks
      ritual == IF sparse_ritual THEN CannedRitual(CannedKey(pkg.task_type))
                ELSE pkg.n_env_prep
  IN  [ current_task |->
          [ present |-> TRUE, task_type |-> pkg.task_type,
            estimated_duration |-> pkg.est,
            realistic_duration |-> RealisticDuration(pkg.est),
            n_steps |-> pkg.n_steps, n_ritual |-> ritual, n_breaks |-> breaks,
            ritual_from |-> IF sparse_ritual THEN CannedKey(pkg.task_type) ELSE own,
            breaks_from |-> IF sparse_breaks THEN CannedKey(pkg.task_type) ELSE own,
            environment |-> "planned", playlist |-> << >>, created |-> now ],
        context_output |-> now ]

\* an approval gate whose thresholds are inclusive
HumanApprovalGateNode_Inclusive(s) ==
  LET task == s.current_task
  IN  [ needs_human_approval |->
          /\ task.present
          /\ \/ task.n_steps >= ApprovalSteps
             \/ task.realistic_duration >= ApprovalMinutes ]

\* graph.py:179-196
HumanApprovalGateNode(s) ==
  LET task == s.current_task
  IN  [ needs_human_approval |->
          /\ task.present
          /\ \/ task.n_steps > ApprovalSteps
             \/ task.realistic_duration > ApprovalMinutes ]

\* focus_builder.py:97-247.  env.kind is "generated" when the generator's
\* JSON was usable and "default" when the call or the parsing raised;
\* env.playlist is the playlist of the JSON (:237), empty in the defaults
FocusBuilderNode(s, env, now) ==
  [ current_task |-> [ s.current_task EXCEPT !.present = TRUE,
                                             !.environment = env.kind,
                                             !.playlist = env.playlist ],
    focus_output |-> now ]

\* an energy model without its floors
NewEnergy_NoFloor(prev, score) ==
  IF score > 600 THEN prev - 2
  ELSE IF score > 300 THEN prev - 1
  ELSE Min(10, prev)

\* cognitive_predictor.py:207-213
NewEnergy(prev, score) ==
  IF score > 600 THEN Max(1, prev - 2)
  ELSE IF score > 300 THEN Max(2, prev - 1)
  ELSE Min(10, prev)

\* cognitive_predictor.py:133-179  is an intervention text produced
HasIntervention(score, focus, needs_break) ==
  \/ score >= 700
  \/ score >= 450
  \/ focus = "hyperfocus" /\ needs_break

\* a cognitive predictor that also returns the task it was given
CognitivePredictorNode_WholeTask(s, c, now) ==
  LET prev == s.cognitive_state
  IN  [ cognitive_state |->
          [ focus_level |-> c.focus,
            energy_level |-> NewEnergy(prev.energy_level, c.score),
            dopamine_balance |-> Clamp(prev.dopamine_balance - 1, 0, 100),
            likelihood |-> (c.score + 5) \div 10 ],
        cognitive_output |->
          IF HasIntervention(c.score, c.focus, c.needs_break) THEN now ELSE 0,
        current_task |-> s.current_task ]

\* cognitive_predictor.py:182-230.  c is what the metrics of the turn yield:
\* the crash score, the focus level and whether a break is 60 minutes overdue
CognitivePredictorNode(s, c, now) ==
  LET prev == s.cognitive_state
  IN  [ cognitive_state |->
          [ focus_level |-> c.focus,
            energy_level |-> NewEnergy(prev.energy_level, c.score),
            dopamine_balance |-> Clamp(prev.dopamine_balance - 1, 0, 100),
            likelihood |-> (c.score + 5) \div 10 ],
        cognitive_output |->
          IF HasIntervention(c.score, c.focus, c.needs_break) THEN now ELSE 0 ]

\* state.py:45-48  the labels PatternDetection.current_pattern accepts
PatternLabels ==
  { "none", "avoidance", "distraction", "paralysis", "productive",
    "perfectionism" }

\* pattern_interrupt.py:199-204
MapPattern(raw) ==
  IF raw = "productive_procrastination" THEN "productive"
  ELSE IF raw \in PatternLabels THEN raw
  ELSE "none"

\* pattern_interrupt.py:243
StoredPattern(raw) ==
  IF raw = "productive_procrastination" THEN "productive" ELSE raw

\* pattern_interrupt.py:174-211  the pattern and the intervention text the
\* try block leaves behind.  o.kind is "ok" when the JSON was read, "fail" when
\* the call or the parsing raised, "badconf" when float(confidence) raised
\* after the raw pattern had been assigned
DetectedPattern(o) ==
  CASE o.kind = "ok" -> MapPattern(o.pattern)
    [] o.kind = "badconf" -> o.pattern
    [] OTHER -> "none"

\* a detector that shows its intervention whatever the confidence
DetectedMessage_NoThreshold(o, now) ==
  IF o.kind = "ok" /\ o.has_msg THEN now ELSE 0

\* pattern_interrupt.py:196,206-208
DetectedMessage(o, now) ==
  IF o.kind = "ok" /\ o.has_msg /\ ~(o.confidence < ShowThreshold)
    THEN now
    ELSE 0

\* pattern_interrupt.py:242-247  PatternDetection(...) validates the label
PatternInterruptRaises(s, o) ==
  /\ s.messages # << >>
  /\ StoredPattern(DetectedPattern(o)) \notin PatternLabels

\* pattern_interrupt.py:235-239  in hundredths
Sentiment(m) ==
  LET length_score == Min((m.len * 100) \div 200, 100)
  IN  Clamp(length_score - m.negs * 30, -100, 100)

\* pattern_interrupt.py:231  the human messages among the last five
RECURSIVE HumanSentiments(_)
HumanSentiments(msgs) ==
  IF msgs = << >> THEN << >>
  ELSE IF msgs[1].type = "human"
    THEN << Sentiment(msgs[1]) >> \o HumanSentiments(Tail(msgs))
    ELSE HumanSentiments(Tail(msgs))

\* a trajectory that keeps its first 10 samples
KeptSentiments_KeepFirst(sentiments) ==
  SubSeq(sentiments, 1, Min(SentimentCap, Len(sentiments)))

\* pattern_interrupt.py:240  new_sentiments[-10:]
KeptSentiments(sentiments) == TakeLast(sentiments, SentimentCap)

\* pattern_interrupt.py:123-252
PatternInterruptNode(s, o, now) ==
  IF s.messages = << >>
    THEN [ pattern_detection |-> DefaultPattern, pattern_output |-> 0 ]
    ELSE
      LET prev == s.pattern_detection
          pattern == DetectedPattern(o)
          msg == DetectedMessage(o, now)
          attempted == IF msg # 0
                         THEN Append(prev.interventions_attempted, msg)
                         ELSE prev.interventions_attempted
          recent == TakeLast(s.messages, 15)
          sentiments == prev.sentiment_trajectory
                          \o HumanSentiments(TakeLast(recent, 5))
      IN  [ pattern_detection |->
              [ current_pattern |-> StoredPattern(pattern),
                interventions_attempted |-> TakeLast(attempted, InterventionCap),
                sentiment_trajectory |-> KeptSentiments(sentiments) ],
            pattern_output |-> msg ]

\* an escalation node that skips a level
PatternEscalationNode_ByTwo(s) ==
  [ pattern_escalation_level |-> s.pattern_escalation_level + 2,
    user_input |-> [ s.user_input EXCEPT !.directives = @ + 1 ] ]

\* graph.py:203-226
PatternEscalationNode(s) ==
  [ pattern_escalation_level |-> s.pattern_escalation_level + 1,
    user_input |-> [ s.user_input EXCEPT !.directives = @ + 1 ] ]

\* time_reality.py:120-233.  midtask: does the elapsed time of the task in
\* progress fall in one of the windows that produce a text
TimeRealityNode(s, midtask, now) ==
  LET produced ==
        \/ s.intent = "start_task"
        \/ s.intent # "start_task" /\ s.current_task.present /\ midtask
        \/ s.intent = "check_in"
  IN  [ time_output |-> IF produced THEN now ELSE 0 ]

\* dopamine_manager.py:21-35
TRANSACTIONS ==
  [ task_started |-> 15, task_completed |-> 10, small_milestone |-> 5,
    took_break_before_crash |-> 8, pattern_interrupted |-> 12,
    high_five |-> 3, doom_scrolled_15min |-> -20,
    missed_planned_task |-> -15, context_switch |-> -10,
    self_criticism |-> -8 ]

\* dopamine_manager.py:49  random.randint(lo, hi) fed by the entropy value r
RandInt(lo, hi, r) == lo + (r % (hi - lo + 1))

\* dopamine_manager.py:38-53.  rnd is the stream of entropy values, used
\* cyclically; t is the cursor, i the number of the draw
RECURSIVE ScheduleFrom(_, _, _, _)
ScheduleFrom(t, total, rnd, i) ==
  IF ~(t < total) THEN << >>
  ELSE
    LET remaining == total - t
    IN  IF remaining < MinGap THEN << >>
        ELSE
          LET upper == Min(MaxGap, remaining)
              gap == RandInt(MinGap, upper, rnd[((i - 1) % Len(rnd)) + 1])
              t2 == t + gap
          IN  (IF t2 <= total THEN << t2 >> ELSE << >>)
                \o ScheduleFrom(t2, total, rnd, i + 1)

\* a schedule whose gaps are not bounded by the time that remains
RECURSIVE ScheduleFrom_Unbounded(_, _, _, _)
ScheduleFrom_Unbounded(t, total, rnd, i) ==
  IF ~(t < total) THEN << >>
  ELSE
    LET gap == RandInt(MinGap, MaxGap, rnd[((i - 1) % Len(rnd)) + 1])
        t2 == t + gap
    IN  (IF t2 <= total THEN << t2 >> ELSE << >>)
          \o ScheduleFrom_Unbounded(t2, total, rnd, i + 1)

GenerateVariableSchedule_Unbounded(total, rnd) ==
  ScheduleFrom_Unbounded(0, total, rnd, 1)

\* dopamine_manager.py:38-53
GenerateVariableSchedule(total, rnd) == ScheduleFrom(0, total, rnd, 1)

\* dopamine_manager.py:56-65
ComputeForecast(balance) ==
  IF balance < 30 THEN "low"
  ELSE IF balance < 50 THEN "moderate"
  ELSE IF balance < 70 THEN "good"
  ELSE "high"

\* dopamine_manager.py:68-86  the band of balances whose text is returned;
\* within a band the text is chosen at random
GetRecommendation(balance) ==
  IF balance < 30 THEN "low"
  ELSE IF balance < 50 THEN "moderate"
  ELSE IF balance > 70 THEN "high"
  ELSE "good"

\* dopamine_manager.py:115-118  int(pts * 1.5) when energy < 5
TaskStartedPoints(energy) ==
  IF energy < LowEnergy
    THEN (TRANSACTIONS.task_started * 3) \div 2
    ELSE TRANSACTIONS.task_started

\* an economy manager that also charges a context switch on a stuck pass
NewTransactions_WithCost(s, now) ==
  (IF s.intent = "start_task" /\ s.current_task.present
     THEN << [ event_type |-> "task_started",
               points |-> TaskStartedPoints(s.cognitive_state.energy_level),
               timestamp |-> now ] >>
     ELSE << >>)
  \o (IF s.intent = "stuck"
        THEN << [ event_type |-> "context_switch",
                  points |-> TRANSACTIONS.context_switch,
                  timestamp |-> now ] >>
        ELSE << >>)

\* dopamine_manager.py:111-146  the transactions detected in this pass
NewTransactions(s, now) ==
  (IF s.intent = "start_task" /\ s.current_task.present
     THEN << [ event_type |-> "task_started",
               points |-> TaskStartedPoints(s.cognitive_state.energy_level),
               timestamp |-> now ] >>
     ELSE << >>)
  \o (IF s.pattern_output # 0
        THEN << [ event_type |-> "pattern_interrupted",
                  points |-> TRANSACTIONS.pattern_interrupted,
                  timestamp |-> now ] >>
        ELSE << >>)
  \o (IF s.intent = "check_in"
        THEN << [ event_type |-> "small_milestone",
                  points |-> TRANSACTIONS.small_milestone,
                  timestamp |-> now ] >>
        ELSE << >>)
  \o (IF s.intent = "take_break" /\ s.cognitive_output # 0
        THEN << [ event_type |-> "took_break_before_crash",
                  points |-> TRANSACTIONS.took_break_before_crash,
                  timestamp |-> now ] >>
        ELSE << >>)

\* a balance that is summed but not clamped
NewBalance_Unclamped(balance, new_transactions) ==
  balance + SumPoints(new_transactions)

\* dopamine_manager.py:148-151
NewBalance(balance, new_transactions) ==
  Clamp(balance + SumPoints(new_transactions), 0, BalanceMax)

\* a log that keeps its first 20 entries
KeptTransactions_KeepFirst(transactions, new_transactions) ==
  SubSeq(transactions \o new_transactions, 1,
         Min(TxCap, Len(transactions \o new_transactions)))

\* dopamine_manager.py:153,181  keep last 20
KeptTransactions(transactions, new_transactions) ==
  TakeLast(transactions \o new_transactions, TxCap)

\* dopamine_manager.py:93-190
DopamineManagerNode(s, rnd, now) ==
  LET economy == s.dopamine_economy
      balance == IF economy.present THEN economy.daily_balance ELSE InitialBalance
      transactions == IF economy.present THEN economy.transactions ELSE << >>
      new_transactions == NewTransactions(s, now)
      balance2 == NewBalance(balance, new_transactions)
      est_dur == IF s.current_task.present
                   THEN s.current_task.estimated_duration
                   ELSE DefaultDuration
      schedule == GenerateVariableSchedule(est_dur, rnd)
  IN  [ dopamine_economy |->
          [ present |-> TRUE,
            daily_balance |-> balance2,
            transactions |-> KeptTransactions(transactions, new_transactions),
            forecast |-> ComputeForecast(balance2),
            next_reward_minutes |-> IF schedule # << >> THEN schedule[1] ELSE 0,
            reward_schedule |-> schedule ],
        dopamine_output |-> now ]

\* graph.py:107-132  the kind of text synthesis ends with.  r.q is the kind of
\* the generator's text; when the call raised, the first non-empty upstream
\* text is used (r.q describes it) and else the canned greeting
SynthesisedKind(s, r) ==
  IF r.llm_ok THEN r.q
  ELSE IF \A f \in OutputFields : s[f] = 0 THEN "ok"
  ELSE r.q

\* graph.py:59-143
ResponseGeneratorNode(s, r, now) ==
  [ response |-> [ turn |-> now, q |-> SynthesisedKind(s, r) ],
    messages |-> << [ type |-> "ai", turn |-> now, len |-> 0, negs |-> 0 ] >>,
    cognitive_output |-> 0, context_output |-> 0, pattern_output |-> 0,
    time_output |-> 0, focus_output |-> 0, dopamine_output |-> 0 ]

\* graph.py:159-167  in tenths
QualityScore(resp) ==
  LET too_short == resp.q \in { "empty", "short", "shorterr" }
      error_language == resp.q \in { "error", "shorterr" }
  IN  IF ~too_short /\ ~error_language THEN 10
      ELSE IF too_short /\ error_language THEN 2
      ELSE 4

\* a quality gate that also resets the ledger
QualityGateNode_ResetsLedger(s) ==
  [ quality_score |-> QualityScore(s.response),
    response_retry_count |-> s.response_retry_count,
    dopamine_economy |-> EmptyEconomy ]

\* graph.py:150-172
QualityGateNode(s) ==
  [ quality_score |-> QualityScore(s.response),
    response_retry_count |-> s.response_retry_count ]

\* graph.py:233-239
ResponseRetryNode(s) ==
  [ response_retry_count |-> s.response_retry_count + 1 ]

\* ------------------------------------------------- inputs of the environment
\* what the user types: is it blank, its length, its avoidance markers
UserInputs ==
  { [ empty |-> FALSE, len |-> 90, negs |-> 0 ] }

\* the intent label of the classifier; "unknown" is a label outside INTENTS
IntentLabels == INTENTS \cup { "unknown", "fail" }

\* plans of the external generator: a failed call, a complete plan, a plan
\* whose JSON has no initiation ritual
PlanSamples ==
  { [ kind |-> "fail", task_type |-> "general", est |-> 0, n_steps |-> 0,
      has_ritual |-> FALSE, n_env_prep |-> 0, n_breaks |-> 0,
      labels_ok |-> FALSE ],
    [ kind |-> "json", task_type |-> "coding", est |-> 45, n_steps |-> 6,
      has_ritual |-> TRUE, n_env_prep |-> 4, n_breaks |-> 3,
      labels_ok |-> TRUE ],
    [ kind |-> "json", task_type |-> "writing", est |-> 45, n_steps |-> 6,
      has_ritual |-> FALSE, n_env_prep |-> 0, n_breaks |-> 3,
      labels_ok |-> TRUE ] }

\* environments of the external generator: a playlist inside the BPM envelope
\* of its prompt, one outside it, and a failed call
EnvSamples ==
  { [ kind |-> "generated",
      playlist |-> << [ section |-> "startup", bpm |-> 140 ],
                      [ section |-> "deep_focus", bpm |-> 80 ],
                      [ section |-> "grind", bpm |-> 150 ],
                      [ section |-> "wind_down", bpm |-> 70 ] >> ],
    [ kind |-> "generated",
      playlist |-> << [ section |-> "startup", bpm |-> 100 ],
                      [ section |-> "deep_focus", bpm |-> 120 ],
                      [ section |-> "grind", bpm |-> 150 ],
                      [ section |-> "wind_down", bpm |-> 70 ] >> ],
    [ kind |-> "default", playlist |-> << >> ] }

\* crash score (thousandths), focus level and break state of a turn
CogSamples ==
  { [ score |-> 100, focus |-> "high", needs_break |-> FALSE ],
    [ score |-> 800, focus |-> "low", needs_break |-> FALSE ] }

\* verdicts of the external classification in the pattern detector
DetectorSamples ==
  { [ kind |-> "ok", pattern |-> p, confidence |-> c, has_msg |-> TRUE ] :
      p \in { "none", "avoidance" }, c \in { 20, 50, 90 } }
  \cup { [ kind |-> "fail", pattern |-> "none", confidence |-> 0,
           has_msg |-> FALSE ],
         [ kind |-> "badconf", pattern |-> "burnout", confidence |-> 0,
           has_msg |-> FALSE ] }

\* kinds of synthesised text
RespSamples ==
  { [ llm_ok |-> TRUE, q |-> "ok" ], [ llm_ok |-> TRUE, q |-> "empty" ],
    [ llm_ok |-> TRUE, q |-> "shorterr" ], [ llm_ok |-> FALSE, q |-> "shorterr" ] }

\* entropy streams of the reward scheduler
RndSamples == { << 25 >> }

\* ------------------------------------------------------------------ history
\* no verdict of the pattern detector in this pass yet
NoVerdict == [ kind |-> "none", confidence |-> -1, pattern |-> "none" ]

\* graph.py:61-81  the upstream texts the synthesis node finds non-empty
NonEmptyOutputs(s) == { f \in OutputFields : s[f] # 0 }

NewPass(h) ==
  [ h EXCEPT !.runs = [ n \in Nodes |-> 0 ], !.escalations = 0, !.retries = 0,
             !.interrupted = FALSE, !.resumed = FALSE, !.fan = << >>,
             !.conf = -1, !.newTx = << >>, !.cogWrites = 0,
             !.verdict = NoVerdict, !.synthIn = { } ]

InitHist ==
  [ runs |-> [ n \in Nodes |-> 0 ], escalations |-> 0, retries |-> 0,
    interrupted |-> FALSE, resumed |-> FALSE, fan |-> << >>, conf |-> -1,
    newTx |-> << >>, cogWrites |-> 0, ledgerSum |-> 0,
    pre |-> InitState, preSess |-> InitSession, verdict |-> NoVerdict,
    synthIn |-> { } ]

\* --------------------------------------------------------------- the runtime
\* graph.py:431-435  one node of the current superstep has returned update u.
\* The superstep commits when its last node has returned: the buffered updates
\* are applied, the edges of the nodes that ran select the next superstep, and
\* the run stops at END or before a node of interrupt_before.  h is the
\* history after the node
NodeReturns(n, u, h) ==
  LET ws == Append(writes, [ node |-> n, update |-> u ])
      rest == running \ { n }
      counted == [ h EXCEPT !.runs[n] = @ + 1,
                            !.conf = IF n = "pattern_interrupt" THEN @ ELSE -1 ]
  IN  IF rest # { }
        THEN /\ running' = rest
             /\ writes' = ws
             /\ hist' = counted
             /\ UNCHANGED << st, gstatus >>
        ELSE
          LET s2 == ApplyAll(st, ws)
              next == UNION { Successors(ws[i].node, s2) : i \in 1..Len(ws) }
          IN  /\ st' = s2
              /\ writes' = << >>
              /\ running' = next
              /\ gstatus' = IF next = { } THEN "done"
                            ELSE IF next \cap InterruptBefore # { } THEN "interrupted"
                            ELSE "running"
              /\ hist' = [ counted EXCEPT
                             !.interrupted = @ \/ (next \cap InterruptBefore # { }),
                             !.escalations = @ + (IF "pattern_escalation" \in next THEN 1 ELSE 0),
                             !.retries = @ + (IF "response_retry" \in next THEN 1 ELSE 0) ]

Ready(n) == gstatus = "running" /\ n \in running

\* a failure path that still counts the interaction in the session
NodeRaises_CountsTurn(n) ==
  /\ running' = { }
  /\ writes' = << >>
  /\ gstatus' = "failed"
  /\ pc' = "idle"
  /\ ret' = [ kind |-> "apology", text |-> [ turn |-> turn, q |-> "error" ] ]
  /\ sess' = [ sess EXCEPT !.interaction_count = st.interaction_count ]
  /\ UNCHANGED << st, turn, hist >>

\* app.py:343-355  an exception that escapes a node ends the invoke; run_agent
\* catches it and returns the apology without touching the session
NodeRaises(n) ==
  /\ running' = { }
  /\ writes' = << >>
  /\ gstatus' = "failed"
  /\ pc' = "idle"
  /\ ret' = [ kind |-> "apology", text |-> [ turn |-> turn, q |-> "error" ] ]
  /\ UNCHANGED << st, sess, turn, hist >>

\* ------------------------------------------------------------------ actions
\* app.py:289-339  run_agent up to the first invoke: the input is written to
\* the channels of the thread and the run starts at the entry point
StartTurn(bound) ==
  /\ pc = "idle"
  /\ turn < bound
  /\ \E inp \in UserInputs :
       LET now == turn + 1
           input_state ==
             [ user_input |-> [ empty |-> inp.empty, turn |-> now, directives |-> 0 ],
               messages |-> << [ type |-> "human", turn |-> now,
                                 len |-> inp.len, negs |-> inp.negs ] >>,
               interaction_count |-> sess.interaction_count,
               cognitive_state |-> sess.cognitive,
               pattern_detection |-> sess.pattern_detection,
               current_task |-> sess.current_task,
               dopamine_economy |-> sess.dopamine_economy,
               pattern_escalation_level |-> 0,
               response_retry_count |-> 0,
               quality_score |-> 10,
               needs_human_approval |-> FALSE ]
       IN  /\ st' = Apply(st, input_state)
           /\ turn' = now
           /\ hist' = [ NewPass(hist) EXCEPT !.pre = Apply(st, input_state),
                                             !.preSess = sess ]
  /\ running' = { "session_manager" }
  /\ writes' = << >>
  /\ gstatus' = "running"
  /\ pc' = "invoke1"
  /\ UNCHANGED << sess, ret >>

RunAgent == StartTurn(MaxTurns)

SessionManager ==
  /\ Ready("session_manager")
  /\ \E label \in IntentLabels :
       NodeReturns("session_manager", SessionManagerNode(st, label), hist)
  /\ UNCHANGED << sess, pc, turn, ret >>

ContextArchitect ==
  /\ Ready("context_architect")
  /\ \E plan \in PlanSamples :
       /\ ~ContextArchitectRaises(plan)
       /\ NodeReturns("context_architect", ContextArchitectNode(st, plan, turn), hist)
  /\ UNCHANGED << sess, pc, turn, ret >>

ContextArchitectFails ==
  /\ Ready("context_architect")
  /\ \E plan \in PlanSamples : ContextArchitectRaises(plan)
  /\ NodeRaises("context_architect")

HumanApprovalGate ==
  /\ Ready("human_approval_gate")
  /\ NodeReturns("human_approval_gate", HumanApprovalGateNode(st), hist)
  /\ UNCHANGED << sess, pc, turn, ret >>

FocusBuilder ==
  /\ Ready("focus_builder")
  /\ \E env \in EnvSamples :
       LET u == FocusBuilderNode(st, env, turn)
       IN  NodeReturns("focus_builder", u,
             [ hist EXCEPT !.fan = Append(@, [ node |-> "focus_builder",
                                               input |-> env, update |-> u ]) ])
  /\ UNCHANGED << sess, pc, turn, ret >>

CognitivePredictor ==
  /\ Ready("cognitive_predictor")
  /\ \E c \in CogSamples :
       LET u == CognitivePredictorNode(st, c, turn)
       IN  NodeReturns("cognitive_predictor", u,
             [ hist EXCEPT !.cogWrites = @ + 1,
                           !.fan = IF "focus_builder" \in running
                                        \/ hist.fan # << >>
                                     THEN Append(@, [ node |-> "cognitive_predictor",
                                                      input |-> c, update |-> u ])
                                     ELSE @ ])
  /\ UNCHANGED << sess, pc, turn, ret >>

PatternInterrupt ==
  /\ Ready("pattern_interrupt")
  /\ \E o \in DetectorSamples :
       /\ ~PatternInterruptRaises(st, o)
       /\ NodeReturns("pattern_interrupt", PatternInterruptNode(st, o, turn),
            [ hist EXCEPT !.conf = IF o.kind = "ok" THEN o.confidence ELSE -1,
                          !.verdict = [ kind |-> o.kind,
                                        confidence |-> o.confidence,
                                        pattern |-> DetectedPattern(o) ] ])
  /\ UNCHANGED << sess, pc, turn, ret >>

PatternInterruptFails ==
  /\ Ready("pattern_interrupt")
  /\ \E o \in DetectorSamples : PatternInterruptRaises(st, o)
  /\ NodeRaises("pattern_interrupt")

PatternEscalation ==
  /\ Ready("pattern_escalation")
  /\ NodeReturns("pattern_escalation", PatternEscalationNode(st), hist)
  /\ UNCHANGED << sess, pc, turn, ret >>

TimeReality ==
  /\ Ready("time_reality")
  /\ \E midtask \in BOOLEAN :
       NodeReturns("time_reality", TimeRealityNode(st, midtask, turn), hist)
  /\ UNCHANGED << sess, pc, turn, ret >>

DopamineManager ==
  /\ Ready("dopamine_manager")
  /\ \E rnd \in RndSamples :
       NodeReturns("dopamine_manager", DopamineManagerNode(st, rnd, turn),
         [ hist EXCEPT !.fan = << >>,
                       !.newTx = NewTransactions(st, turn),
                       !.ledgerSum = @ + SumPoints(NewTransactions(st, turn)) ])
  /\ UNCHANGED << sess, pc, turn, ret >>

ResponseGenerator ==
  /\ Ready("response_generator")
  /\ \E r \in RespSamples :
       NodeReturns("response_generator", ResponseGeneratorNode(st, r, turn),
         [ hist EXCEPT !.synthIn =
             IF hist.runs["response_generator"] = 0
               THEN NonEmptyOutputs(st) ELSE @ ])
  /\ UNCHANGED << sess, pc, turn, ret >>

QualityGate ==
  /\ Ready("quality_gate")
  /\ NodeReturns("quality_gate", QualityGateNode(st), hist)
  /\ UNCHANGED << sess, pc, turn, ret >>

ResponseRetry ==
  /\ Ready("response_retry")
  /\ NodeReturns("response_retry", ResponseRetryNode(st), hist)
  /\ UNCHANGED << sess, pc, turn, ret >>

\* app.py:344-351  the first invoke stopped before the approval gate and its
\* result holds no response: invoke(None) resumes the run
ResumeInterrupted ==
  /\ pc = "invoke1"
  /\ gstatus = "interrupted"
  /\ ~Truthy(st.response)
  /\ pc' = "invoke2"
  /\ gstatus' = "running"
  /\ hist' = [ hist EXCEPT !.resumed = TRUE ]
  /\ UNCHANGED << st, sess, running, writes, turn, ret >>

\* app.py:344-351  the first invoke ran to END with an empty response:
\* invoke(None) on the finished thread runs nothing and returns its state
ResumeFinished ==
  /\ pc = "invoke1"
  /\ gstatus = "done"
  /\ ~Truthy(st.response)
  /\ pc' = "invoke2"
  /\ UNCHANGED << st, sess, running, writes, gstatus, turn, ret, hist >>

\* a session that keeps its own interaction counter
SessionAfter_KeepsCount(se, result) ==
  [ cognitive |-> result.cognitive_state,
    current_task |-> IF result.current_task.present
                       THEN result.current_task ELSE se.current_task,
    pattern_detection |-> result.pattern_detection,
    dopamine_economy |-> IF result.dopamine_economy.present
                           THEN result.dopamine_economy ELSE se.dopamine_economy,
    interaction_count |-> se.interaction_count ]

\* app.py:357-374  the session takes over the entities of the result that are
\* truthy; the response of the result is returned
SessionAfter(se, result) ==
  [ cognitive |-> result.cognitive_state,
    current_task |-> IF result.current_task.present
                       THEN result.current_task ELSE se.current_task,
    pattern_detection |-> result.pattern_detection,
    dopamine_economy |-> IF result.dopamine_economy.present
                           THEN result.dopamine_economy ELSE se.dopamine_economy,
    interaction_count |-> result.interaction_count ]

ReturnResult ==
  /\ gstatus \in { "interrupted", "done" }
  /\ \/ pc = "invoke2"
     \/ pc = "invoke1" /\ Truthy(st.response)
  /\ sess' = SessionAfter(sess, st)
  /\ ret' = [ kind |-> "response", text |-> st.response ]
  /\ pc' = "idle"
  /\ UNCHANGED << st, running, writes, gstatus, turn, hist >>

Init ==
  /\ st = InitState
  /\ sess = InitSession
  /\ running = { }
  /\ writes = << >>
  /\ gstatus = "none"
  /\ pc = "idle"
  /\ turn = 0
  /\ ret = [ kind |-> "none", text |-> NoResponse ]
  /\ hist = InitHist

Next ==
  \/ RunAgent
  \/ SessionManager
  \/ ContextArchitect
  \/ ContextArchitectFails
  \/ HumanApprovalGate
  \/ FocusBuilder
  \/ CognitivePredictor
  \/ PatternInterrupt
  \/ PatternInterruptFails
  \/ TimeReality
  \/ DopamineManager
  \/ ResponseGenerator
  \/ QualityGate
  \/ ResponseRetry
  \/ ResumeInterrupted
  \/ ResumeFinished
  \/ ReturnResult

Spec == Init /\ [][Next]_vars

\* ------------------------------------------- the severity cycle on its own
\* The cycle pattern_interrupt -> _route_pattern_severity -> pattern_escalation
\* with the verdict in the pattern_detection dict held fixed: the router and
\* the escalation node applied to every confidence and every pattern label
Confidences == 0..100

EscInit ==
  /\ \E c \in Confidences, p \in PatternLabels :
       st = [ InitState EXCEPT
                !.user_input = [ empty |-> FALSE, turn |-> 1, directives |-> 0 ],
                !.intent = "stuck",
                !.pattern_detection =
                  [ current_pattern |-> p, interventions_attempted |-> << >>,
                    sentiment_trajectory |-> << >>, confidence |-> c ] ]
  /\ sess = InitSession
  /\ running = { "pattern_interrupt" }
  /\ writes = << >>
  /\ gstatus = "running"
  /\ pc = "invoke1"
  /\ turn = 1
  /\ ret = [ kind |-> "none", text |-> NoResponse ]
  /\ hist = InitHist

\* graph.py:393-401  conditional edge #2 evaluated on the state as it is
SeverityEdge ==
  /\ Ready("pattern_interrupt")
  /\ LET next == Successors("pattern_interrupt", st)
     IN  /\ running' = next
         /\ hist' = [ hist EXCEPT
                        !.runs["pattern_interrupt"] = @ + 1,
                        !.escalations = @ + (IF "pattern_escalation" \in next THEN 1 ELSE 0) ]
  /\ UNCHANGED << st, sess, writes, gstatus, pc, turn, ret >>

EscNext ==
  \/ SeverityEdge
  \/ PatternEscalation

EscSpec == EscInit /\ [][EscNext]_vars

\* ------------------------------------------------ the ledger over many passes
\* what the nodes upstream of the economy manager leave in the state on the
\* paths that reach it: a started task (normal and low energy), a detected
\* pattern with and without intervention text, a check-in, a break, a chat
UpstreamSamples ==
  { [ intent |-> "start_task", task |-> TRUE, energy |-> 7, pattern |-> FALSE ],
    [ intent |-> "start_task", task |-> TRUE, energy |-> 4, pattern |-> FALSE ],
    [ intent |-> "stuck", task |-> FALSE, energy |-> 7, pattern |-> TRUE ],
    [ intent |-> "stuck", task |-> TRUE, energy |-> 7, pattern |-> FALSE ],
    [ intent |-> "check_in", task |-> TRUE, energy |-> 6, pattern |-> FALSE ],
    [ intent |-> "take_break", task |-> FALSE, energy |-> 7, pattern |-> FALSE ],
    [ intent |-> "general_chat", task |-> FALSE, energy |-> 7, pattern |-> FALSE ] }

\* the state the economy manager of pass `now` reads
WithUpstream(s, up, now) ==
  [ s EXCEPT
      !.intent = up.intent,
      !.current_task =
        IF up.task
          THEN ContextArchitectNode(s, FallbackPackage, now).current_task
          ELSE EmptyTask,
      !.cognitive_state = [ @ EXCEPT !.energy_level = up.energy ],
      !.pattern_output = IF up.pattern THEN now ELSE 0,
      !.dopamine_output = 0 ]

\* dopamine_manager.py:93-190 applied to the state of pass `now`
LedgerStep(s, up, rnd, now) ==
  LET s2 == WithUpstream(s, up, now)
  IN  Apply(s2, DopamineManagerNode(s2, rnd, now))

\* the upstream state of the i-th replayed pass
PriorUpstream(i) ==
  CASE i % 3 = 1 -> [ intent |-> "start_task", task |-> TRUE, energy |-> 4, pattern |-> FALSE ]
    [] i % 3 = 2 -> [ intent |-> "check_in", task |-> TRUE, energy |-> 6, pattern |-> FALSE ]
    [] OTHER -> [ intent |-> "stuck", task |-> FALSE, energy |-> 7, pattern |-> TRUE ]

\* state and sum of recorded deltas after k passes from a fresh session
RECURSIVE Replay(_)
Replay(k) ==
  IF k = 0 THEN [ s |-> InitState, sum |-> 0 ]
  ELSE
    LET before == Replay(k - 1)
        up == PriorUpstream(k)
    IN  [ s |-> LedgerStep(before.s, up, << 25 >>, k),
          sum |-> before.sum
                    + SumPoints(NewTransactions(WithUpstream(before.s, up, k), k)) ]

LedgerInit ==
  /\ \E k \in 0..MaxPrior :
       /\ st = Replay(k).s
       /\ turn = k
       /\ hist = [ InitHist EXCEPT !.ledgerSum = Replay(k).sum ]
  /\ sess = InitSession
  /\ running = { }
  /\ writes = << >>
  /\ gstatus = "none"
  /\ pc = "idle"
  /\ ret = [ kind |-> "none", text |-> NoResponse ]

\* one more pass of the economy manager
LedgerPass ==
  /\ hist.runs["dopamine_manager"] < MaxLedgerPasses
  /\ \E up \in UpstreamSamples, rnd \in RndSamples :
       LET now == turn + 1
           s2 == WithUpstream(st, up, now)
       IN  /\ st' = LedgerStep(st, up, rnd, now)
           /\ turn' = now
           /\ hist' = [ hist EXCEPT
                          !.runs["dopamine_manager"] = @ + 1,
                          !.newTx = NewTransactions(s2, now),
                          !.ledgerSum = @ + SumPoints(NewTransactions(s2, now)) ]
  /\ UNCHANGED << sess, running, writes, gstatus, pc, ret >>

LedgerNext == LedgerPass

LedgerSpec == LedgerInit /\ [][LedgerNext]_vars

\* ------------------------------------------------------------------ claims
\* C1: in one pass the quality gate routes to a retry at most once and response
\* synthesis runs at most twice; the quality decision that follows a retry is
\* accept whatever the score, so the pass then ends
C1_RetryAtMostOnce ==
  /\ hist.retries <= 1
  /\ hist.runs["response_generator"] <= 2
  /\ hist.runs["response_retry"] <= 1
  /\ hist.runs["quality_gate"] >= 2 =>
       /\ hist.runs["quality_gate"] = 2
       /\ hist.retries = 1
       /\ gstatus = "done"

\* a second synthesis that scored below 5 again and was accepted
C1_Witness ==
  /\ hist.runs["quality_gate"] = 2
  /\ hist.runs["response_generator"] = 2
  /\ st.quality_score < 5
  /\ st.response_retry_count = 1
  /\ gstatus = "done"

\* C2: with the verdict of the detector held fixed, the router sends the run
\* into the escalation node at most twice from level 0; at level 2 it leaves
\* the cycle, and with confidence 0.9 it is entered exactly twice
C2_EscalationAtMostTwice ==
  /\ hist.escalations <= 2
  /\ st.pattern_escalation_level >= 2 =>
       RoutePatternSeverity(st) # "escalate"
  /\ (st.pattern_detection.confidence = 90
        /\ running \cap { "pattern_interrupt", "pattern_escalation" } = { }) =>
       /\ hist.escalations = 2
       /\ st.pattern_escalation_level = 2
       /\ running = { "dopamine_manager" }

\* confidence 0.9: two escalations, then on to the economy manager
C2_Witness ==
  /\ st.pattern_detection.confidence = 90
  /\ hist.escalations = 2
  /\ st.pattern_escalation_level = 2
  /\ st.user_input.directives = 2
  /\ running = { "dopamine_manager" }

\* C3: a pass that run_agent has returned from ran to END (or stopped at the
\* approval gate), and no node ran more often in it than the two bounded
\* cycles allow
C3_PassReachesEnd ==
  /\ \A n \in Nodes : hist.runs[n] <= 3
  /\ (pc = "idle" /\ turn > 0) => gstatus \in { "done", "interrupted" }

\* C4: a pass that stopped before the approval gate has been resumed and has
\* run to END, with the plan made before the pause, when run_agent returns
C4_PausedPassResumed ==
  (pc = "idle" /\ hist.interrupted) =>
    /\ hist.resumed
    /\ gstatus = "done"
    /\ hist.runs["human_approval_gate"] = 1
    /\ st.current_task.created = turn

\* C5: a verdict with confidence above 0.7 at an escalation level below 2
\* sends the run to the escalation node
C5_HighConfidenceEscalates ==
  (hist.conf > 70 /\ st.pattern_escalation_level < 2
     /\ gstatus = "running" /\ hist.runs["pattern_interrupt"] > 0) =>
    running = { "pattern_escalation" }

\* C6: a verdict with confidence at or below 0.3 sends the run directly to
\* response synthesis, whatever the pattern label
C6_LowConfidenceSkips ==
  (hist.conf >= 0 /\ hist.conf <= 30
     /\ gstatus = "running" /\ hist.runs["pattern_interrupt"] > 0) =>
    running = { "response_generator" }

\* C7: on a start_task pass the economy manager is scheduled only after both
\* the focus builder and the cognitive predictor have run, and it runs once:
\* never twice, and exactly once in a pass that reached END
C7_FanInOnce ==
  (hist.runs["human_approval_gate"] > 0) =>
    /\ hist.runs["dopamine_manager"] <= 1
    /\ ("dopamine_manager" \in running \/ hist.runs["dopamine_manager"] > 0) =>
         /\ hist.runs["focus_builder"] = 1
         /\ hist.runs["cognitive_predictor"] = 1
    /\ gstatus = "done" => hist.runs["dopamine_manager"] = 1

\* a pass through the approval gate with the approval flag set, at END
C7_Witness ==
  /\ st.intent = "start_task"
  /\ st.needs_human_approval
  /\ hist.runs["focus_builder"] = 1
  /\ hist.runs["cognitive_predictor"] = 1
  /\ hist.runs["dopamine_manager"] = 1
  /\ gstatus = "done"

C9_BalanceIsClampedSum ==
  st.dopamine_economy.present =>
    st.dopamine_economy.daily_balance =
      (IF hist.ledgerSum < 0 THEN 0
       ELSE IF hist.ledgerSum > 100 THEN 100 ELSE hist.ledgerSum)

\* C9 amended: the stored balance is the opening balance of 100 plus the sum
\* of all the deltas recorded since the session started, clamped to 0..100
C9_BalanceIsClampedSumFrom100 ==
  st.dopamine_economy.present =>
    st.dopamine_economy.daily_balance =
      (IF 100 + hist.ledgerSum < 0 THEN 0
       ELSE IF 100 + hist.ledgerSum > 100 THEN 100 ELSE 100 + hist.ledgerSum)

\* a pass that recorded the first delta of the session, +22, and left the
\* balance at 100
C9_Witness ==
  /\ st.dopamine_economy.present
  /\ hist.runs["dopamine_manager"] = 1
  /\ hist.ledgerSum = 22
  /\ Len(st.dopamine_economy.transactions) = 1
  /\ st.dopamine_economy.daily_balance = 100

\* C10: after every economy-manager pass the balance is in 0..100 and the log
\* holds at most 20 entries: the last min(20, n) of the n entries of the
\* previous log followed by the entries of this pass, in their order
C10_LogKeepsMostRecent ==
  [][ LET old == IF st.dopamine_economy.present
                   THEN st.dopamine_economy.transactions ELSE << >>
          all == old \o hist'.newTx
          n == Len(all)
          log == st'.dopamine_economy.transactions
          k == Len(log)
      IN  (hist'.runs["dopamine_manager"] = hist.runs["dopamine_manager"] + 1) =>
            /\ st'.dopamine_economy.present
            /\ st'.dopamine_economy.daily_balance \in 0..100
            /\ k <= 20
            /\ k = (IF n < 20 THEN n ELSE 20)
            /\ \A i \in 1..k : log[i] = all[n - k + i]
    ]_vars

\* a full log of 20 entries took one more entry and dropped its oldest
C10_Witness ==
  /\ hist.runs["dopamine_manager"] > 0
  /\ Len(hist.newTx) = 1
  /\ Len(st.dopamine_economy.transactions) = 20
  /\ st.dopamine_economy.transactions[20] = hist.newTx[1]
  /\ st.dopamine_economy.transactions[1].timestamp = 2

\* ------------------------------------------- the cognitive predictor alone
\* crash scores (thousandths) on both sides of the thresholds 0.3 and 0.6,
\* with the focus level and the break state the metrics yield
CrashSamples ==
  { [ score |-> sc, focus |-> IF sc > 600 THEN "low" ELSE "high",
      needs_break |-> FALSE ] : sc \in { 0, 300, 301, 600, 601, 1000 } }

\* state.py:27-31  every valid prior CognitiveState
CogInit ==
  /\ \E e \in 0..10, d \in 0..100 :
       st = [ InitState EXCEPT
                !.cognitive_state = [ focus_level |-> "medium", energy_level |-> e,
                                      dopamine_balance |-> d, likelihood |-> 0 ] ]
  /\ sess = InitSession
  /\ running = { }
  /\ writes = << >>
  /\ gstatus = "none"
  /\ pc = "idle"
  /\ turn = 0
  /\ ret = [ kind |-> "none", text |-> NoResponse ]
  /\ hist = InitHist

\* cognitive_predictor.py:182-230  one more pass of the predictor
CogPass ==
  /\ hist.cogWrites < MaxCogPasses
  /\ \E c \in CrashSamples :
       st' = Apply(st, CognitivePredictorNode(st, c, turn + 1))
  /\ turn' = turn + 1
  /\ hist' = [ hist EXCEPT !.cogWrites = @ + 1,
                           !.runs["cognitive_predictor"] = @ + 1 ]
  /\ UNCHANGED << sess, running, writes, gstatus, pc, ret >>

CogNext == CogPass

CogSpec == CogInit /\ [][CogNext]_vars

\* C11: from any prior state with energy in 0..10 and dopamine in 0..100 and
\* for any crash score, the cognitive predictor leaves energy_level in 0..10
\* and dopamine_balance in 0..100, after every pass of a sequence of passes
C11_CognitiveRanges ==
  /\ st.cognitive_state.energy_level \in 0..10
  /\ st.cognitive_state.dopamine_balance \in 0..100

\* two passes with a crash score above 0.6 from energy 0 or more and an empty
\* dopamine balance: the floor of the energy and the floor of the balance
C11_Witness ==
  /\ hist.cogWrites = 2
  /\ st.cognitive_state.likelihood = 100
  /\ st.cognitive_state.energy_level = 1
  /\ st.cognitive_state.dopamine_balance = 0

\* C12: every task the planner creates has realistic_duration equal to
\* round(E * 1.5) for its estimate E (Python's round: halves go to the even
\* neighbour), so an estimate of 45 gives 68
C12_RealisticIsRounded ==
  st.current_task.present =>
    LET E == st.current_task.estimated_duration
        floor == (3 * E) \div 2
    IN  st.current_task.realistic_duration =
          (IF (3 * E) % 2 = 0 THEN floor
           ELSE IF floor % 2 = 0 THEN floor ELSE floor + 1)

\* C13: every playlist stored in the task environment has startup >= 130,
\* deep focus <= 90, grind phase >= 140 and wind down <= 80 BPM
C13_PlaylistInEnvelope ==
  \A i \in DOMAIN st.current_task.playlist :
    LET track == st.current_task.playlist[i]
    IN  /\ track.section = "startup" => track.bpm >= 130
        /\ track.section = "deep_focus" => track.bpm <= 90
        /\ track.section = "grind" => track.bpm >= 140
        /\ track.section = "wind_down" => track.bpm <= 80

\* C14: whenever run_agent is idle, which is the state the next pass starts
\* from (the input of a pass does not touch the six fields), the six
\* intermediate textual outputs are all empty: no text of an earlier turn is
\* left for the nodes or the synthesis of a later turn
C14_OutputsEmptyBetweenPasses ==
  pc = "idle" => \A f \in OutputFields : st[f] = 0

\* C15: whatever the external generator returns, the step the planner node
\* takes does not fail the run and leaves the task record of this turn in
\* the state
C15_PlannerFailsSoft ==
  [][ (gstatus = "running" /\ "context_architect" \in running) =>
        /\ gstatus' # "failed"
        /\ st'.current_task.present
        /\ st'.current_task.created = turn
    ]_vars

\* C16: when an exception has escaped a node, run_agent has returned a single
\* apology, the session's cognitive state, task, pattern detection, ledger
\* and interaction counter are the ones it had before the turn, and the
\* checkpoint holds nothing the failed pass produced that a later pass can
\* read: only the intent label and the counter differ from the input of the
\* failed turn, and both are overwritten before the next pass reads them
C16_FailureLeavesSession ==
  (pc = "idle" /\ gstatus = "failed") =>
    /\ ret = [ kind |-> "apology", text |-> [ turn |-> turn, q |-> "error" ] ]
    /\ sess = hist.preSess
    /\ \A f \in DOMAIN st \ { "intent", "interaction_count" } : st[f] = hist.pre[f]
    /\ sess.interaction_count = hist.pre.interaction_count

\* the second turn of a session failed after a first turn had built up a
\* ledger and a task
C16_Witness ==
  /\ pc = "idle"
  /\ gstatus = "failed"
  /\ turn = 2
  /\ ret.kind = "apology"
  /\ sess.dopamine_economy.present
  /\ sess.current_task.present
  /\ sess.interaction_count = 1
  /\ st.interaction_count = 2

\* C17: in every pass that has reached END the cognitive predictor has
\* updated cognitive_state exactly once, and while it has not run in a pass
\* the state is the one the pass started with (no other node writes it)
C17_CognitiveOncePerPass ==
  /\ gstatus = "done" => hist.cogWrites = 1
  /\ hist.cogWrites = 0 => st.cognitive_state = hist.pre.cognitive_state

\* C18: the ledger changes only when the economy manager runs, which is at
\* most once per pass: until it has run the ledger is the one the pass
\* started with (so it is unchanged on the quick-response path), after its
\* run the log is the old log followed by the one batch of this pass, and no
\* node of the retry cycle or of the escalation cycle leads back to it
C18_LedgerOnlyByEconomyManager ==
  /\ hist.runs["dopamine_manager"] <= 1
  /\ hist.runs["dopamine_manager"] = 0 =>
       st.dopamine_economy = hist.pre.dopamine_economy
  /\ hist.runs["dopamine_manager"] = 1 =>
       /\ st.dopamine_economy.present
       /\ st.dopamine_economy.transactions =
            TakeLast(hist.pre.dopamine_economy.transactions \o hist.newTx, 20)
  /\ \A n \in { "response_generator", "quality_gate", "response_retry",
               "pattern_escalation" } :
       "dopamine_manager" \notin Successors(n, st)

\* a pass that went through the retry cycle after the economy manager had
\* added its batch to the ledger
C18_Witness ==
  /\ gstatus = "done"
  /\ hist.retries = 1
  /\ hist.runs["response_generator"] = 2
  /\ hist.runs["dopamine_manager"] = 1
  /\ Len(hist.newTx) = 1
  /\ Len(st.dopamine_economy.transactions) =
       Len(hist.pre.dopamine_economy.transactions) + 1

\* -------------------------------------------------- the approval gate alone
\* app.py:272, context_architect.py:337-351  no task, or a task with 0..8
\* micro-steps and an estimate on both sides of the 60-minute threshold
GateInit ==
  /\ \E task \in { EmptyTask } \cup
                 { [ EmptyTask EXCEPT !.present = TRUE, !.n_steps = n,
                                      !.estimated_duration = est,
                                      !.realistic_duration = RealisticDuration(est),
                                      !.environment = "planned", !.created = 1 ] :
                     n \in 0..8, est \in { 0, 30, 39, 40, 41, 45, 60, 90 } } :
       st = [ InitState EXCEPT !.current_task = task, !.intent = "start_task" ]
  /\ sess = InitSession
  /\ running = { "human_approval_gate" }
  /\ writes = << >>
  /\ gstatus = "running"
  /\ pc = "invoke2"
  /\ turn = 1
  /\ ret = [ kind |-> "none", text |-> NoResponse ]
  /\ hist = InitHist

\* graph.py:179-196  the gate runs on the task of the state
GateStep ==
  /\ Ready("human_approval_gate")
  /\ st' = Apply(st, HumanApprovalGateNode(st))
  /\ running' = Successors("human_approval_gate", st')
  /\ hist' = [ hist EXCEPT !.runs["human_approval_gate"] = @ + 1 ]
  /\ UNCHANGED << sess, writes, gstatus, pc, turn, ret >>

GateNext == GateStep

GateSpec == GateInit /\ [][GateNext]_vars

\* C19: once the gate has run, the approval flag is true exactly when there
\* is a current task whose plan has more than 5 micro-steps or a realistic
\* duration over 60 minutes; it is false when there is no current task
C19_ApprovalFlag ==
  hist.runs["human_approval_gate"] = 1 =>
    /\ st.needs_human_approval <=>
         /\ st.current_task.present
         /\ \/ st.current_task.n_steps > 5
            \/ st.current_task.realistic_duration > 60
    /\ ~st.current_task.present => ~st.needs_human_approval

\* the gate has flagged a plan of 5 steps for its realistic duration of 61
C19_Witness ==
  /\ hist.runs["human_approval_gate"] = 1
  /\ st.current_task.n_steps = 5
  /\ st.current_task.realistic_duration = 61
  /\ st.needs_human_approval

\* ------------------------------------------- the pattern detector over runs
\* what the user types before a detector run: a short message full of
\* avoidance markers, a plain one, a long one
TypedSamples ==
  { [ len |-> 10, negs |-> 5 ], [ len |-> 90, negs |-> 1 ],
    [ len |-> 400, negs |-> 0 ] }

\* verdicts of the classification: an intervention that is shown, a verdict
\* below the display threshold, a failed call
VerdictSamples ==
  { [ kind |-> "ok", pattern |-> "avoidance", confidence |-> 90, has_msg |-> TRUE ],
    [ kind |-> "ok", pattern |-> "avoidance", confidence |-> 20, has_msg |-> TRUE ],
    [ kind |-> "fail", pattern |-> "none", confidence |-> 0, has_msg |-> FALSE ] }

\* app.py:318-320  the message of a new turn joins the log
WithMessage(s, m, now) ==
  [ s EXCEPT !.messages = @ \o << [ type |-> "human", turn |-> now,
                                    len |-> m.len, negs |-> m.negs ] >> ]

\* pattern_interrupt.py:123-252 applied to the state of run `now`
DetectorStep(s, o, now) == Apply(s, PatternInterruptNode(s, o, now))

\* the state after k runs, one per turn, each with a shown intervention
RECURSIVE ReplayDetector(_)
ReplayDetector(k) ==
  IF k = 0 THEN [ InitState EXCEPT !.intent = "stuck" ]
  ELSE DetectorStep(
         WithMessage(ReplayDetector(k - 1), [ len |-> 40 * k, negs |-> k % 3 ], k),
         [ kind |-> "ok", pattern |-> "avoidance", confidence |-> 90,
           has_msg |-> TRUE ], k)

DetInit ==
  /\ \E k \in 0..MaxPriorRuns :
       /\ st = ReplayDetector(k)
       /\ turn = k
  /\ sess = InitSession
  /\ running = { }
  /\ writes = << >>
  /\ gstatus = "none"
  /\ pc = "idle"
  /\ ret = [ kind |-> "none", text |-> NoResponse ]
  /\ hist = InitHist

\* the detector runs in a new turn
DetectorTurn ==
  /\ hist.runs["pattern_interrupt"] < MaxDetectorRuns
  /\ \E m \in TypedSamples, o \in VerdictSamples :
       st' = DetectorStep(WithMessage(st, m, turn + 1), o, turn + 1)
  /\ turn' = turn + 1
  /\ hist' = [ hist EXCEPT !.runs["pattern_interrupt"] = @ + 1 ]
  /\ UNCHANGED << sess, running, writes, gstatus, pc, ret >>

\* graph.py:404  the detector runs again in the same turn, after an escalation
DetectorAgain ==
  /\ hist.runs["pattern_interrupt"] < MaxDetectorRuns
  /\ st.messages # << >>
  /\ \E o \in VerdictSamples :
       st' = DetectorStep(Apply(st, PatternEscalationNode(st)), o, turn + 1)
  /\ turn' = turn + 1
  /\ hist' = [ hist EXCEPT !.runs["pattern_interrupt"] = @ + 1,
                           !.escalations = @ + 1 ]
  /\ UNCHANGED << sess, running, writes, gstatus, pc, ret >>

DetNext ==
  \/ DetectorTurn
  \/ DetectorAgain

DetSpec == DetInit /\ [][DetNext]_vars

\* C20: after every run of the pattern detector interventions_attempted holds
\* at most 5 entries and sentiment_trajectory at most 10, each being the last
\* entries, in insertion order, of the previous buffer followed by what this
\* run added, and every sentiment sample lies in [-1, 1] (hundredths here)
C20_RingBuffers ==
  [][ LET old == st.pattern_detection
          new == st'.pattern_detection
          allA == old.interventions_attempted
                    \o (IF st'.pattern_output # 0
                          THEN << st'.pattern_output >> ELSE << >>)
          m == st'.messages
          last5 == SubSeq(m, IF Len(m) > 5 THEN Len(m) - 4 ELSE 1, Len(m))
          allS == old.sentiment_trajectory \o HumanSentiments(last5)
          nA == Len(allA)
          nS == Len(allS)
          kA == Len(new.interventions_attempted)
          kS == Len(new.sentiment_trajectory)
      IN  (hist'.runs["pattern_interrupt"] = hist.runs["pattern_interrupt"] + 1) =>
            /\ kA = (IF nA < 5 THEN nA ELSE 5)
            /\ kS = (IF nS < 10 THEN nS ELSE 10)
            /\ \A i \in 1..kA : new.interventions_attempted[i] = allA[nA - kA + i]
            /\ \A i \in 1..kS : new.sentiment_trajectory[i] = allS[nS - kS + i]
            /\ \A i \in 1..kS : new.sentiment_trajectory[i] \in -100..100
    ]_vars

\* both buffers are full and have dropped their oldest entries, and the
\* trajectory holds a sample clamped at -1 and one clamped at 1
C20_Witness ==
  /\ hist.runs["pattern_interrupt"] = 2
  /\ Len(st.pattern_detection.interventions_attempted) = 5
  /\ st.pattern_detection.interventions_attempted[1] > 1
  /\ st.pattern_detection.interventions_attempted[5] = turn
  /\ Len(st.pattern_detection.sentiment_trajectory) = 10
  /\ \E i \in 1..10 : st.pattern_detection.sentiment_trajectory[i] = -100
  /\ \E i \in 1..10 : st.pattern_detection.sentiment_trajectory[i] = 100

\* ------------------------------------------------ the crash score alone
\* cognitive_predictor.py:19-26  WEIGHTS, in thousandths
WEIGHTS ==
  [ typing_speed_decline |-> 250, message_length_trend |-> 200,
    response_time_trend |-> 200, break_overdue |-> 150,
    topic_drift |-> 100, session_duration |-> 100 ]

\* cognitive_predictor.py:46-101  the order in which the factors dict is filled
FactorOrder ==
  << "typing_speed_decline", "message_length_trend", "response_time_trend",
     "session_duration", "break_overdue", "topic_drift" >>

\* Python's round(x, 3) of a value held in millionths, in thousandths
Round3(millionths) ==
  LET q == millionths \div 1000
      r == millionths % 1000
  IN  IF r > 500 \/ (r = 500 /\ q % 2 = 1) THEN q + 1 ELSE q

\* a crash score whose typing weight has the wrong sign
ComputeCrashScore_NegativeWeight(factors) ==
  Round3(Min(factors["message_length_trend"] * 200
               - factors["typing_speed_decline"] * 250, 1000000))

\* cognitive_predictor.py:104-107  overall score in thousandths of the six
\* factors (each in thousandths)
ComputeCrashScore(factors) ==
  LET overall ==
        factors["typing_speed_decline"] * WEIGHTS["typing_speed_decline"]
        + factors["message_length_trend"] * WEIGHTS["message_length_trend"]
        + factors["response_time_trend"] * WEIGHTS["response_time_trend"]
        + factors["break_overdue"] * WEIGHTS["break_overdue"]
        + factors["topic_drift"] * WEIGHTS["topic_drift"]
        + factors["session_duration"] * WEIGHTS["session_duration"]
  IN  Round3(Min(overall, 1000000))

\* cognitive_predictor.py:110-130.  m holds what the metrics yield: the
\* factors, the trend of the message lengths, their number and their average
DetermineFocus(m, overall) ==
  IF /\ m.factors["topic_drift"] < 100
     /\ overall < 300
     /\ m.msg_trend # "decreasing"
     /\ m.n_msgs > 5
    THEN "hyperfocus"
  ELSE IF overall < 250 /\ m.avg_len > 40 THEN "high"
  ELSE IF overall > 500 \/ m.msg_trend = "decreasing" THEN "low"
  ELSE "medium"

\* cognitive_predictor.py:140-141  the evidence the reset protocol names:
\* the first two factors, in the order of the dict, whose value is above 0.5
RECURSIVE HighFactors(_, _)
HighFactors(factors, i) ==
  IF i > Len(FactorOrder) THEN << >>
  ELSE (IF factors[FactorOrder[i]] > 500 THEN << FactorOrder[i] >> ELSE << >>)
         \o HighFactors(factors, i + 1)

\* cognitive_predictor.py:133-179
GenerateIntervention(focus, overall, factors, needs_break) ==
  IF overall >= 700
    THEN [ kind |-> "reset_protocol",
           evidence |-> LET high == HighFactors(factors, 1)
                        IN  SubSeq(high, 1, Min(2, Len(high))) ]
  ELSE IF overall >= 450 THEN [ kind |-> "check_in", evidence |-> << >> ]
  ELSE IF focus = "hyperfocus" /\ needs_break
    THEN [ kind |-> "hyperfocus", evidence |-> << >> ]
  ELSE [ kind |-> "none", evidence |-> << >> ]


\* values of one factor, in thousandths: around the rounding of
\* 0.25 * factor to three places, around the 0.5 threshold, and the ends
TypingFactors == { 0, 1, 2, 3, 6, 500, 501, 999 }
OtherFactors == { 0, 600, 1000 }

\* state.py  what the message lengths of InteractionMetrics yield
MetricShapes ==
  { [ n_msgs |-> 6, avg_len |-> 50, msg_trend |-> "stable" ],
    [ n_msgs |-> 5, avg_len |-> 30, msg_trend |-> "decreasing" ] }

\* cognitive_predictor.py:170  should_suggest_break(None, last_break, 60):
\* the break factor is (minutes - 45) / 45, so 60 minutes is a third
BreakDue(m) == m.factors["break_overdue"] * 45 >= 15000

\* cognitive_predictor.py:198-230  the node on metrics m: the score, the
\* focus and the intervention are computed from m, the state is updated
PredictorWith(s, m, needs_break, now) ==
  LET overall == ComputeCrashScore(m.factors)
      focus == DetermineFocus(m, overall)
      c == [ score |-> overall, focus |-> focus, needs_break |-> needs_break ]
  IN  [ Apply(s, CognitivePredictorNode(s, c, now)) EXCEPT
          !.cognitive_output =
             GenerateIntervention(focus, overall, m.factors, needs_break) ]

\* the node on metrics given by their factors
PredictorOnMetrics(s, m, now) == PredictorWith(s, m, BreakDue(m), now)

\* the state carries interaction_metrics, not yet scored
CrashInit ==
  /\ \E t \in TypingFactors, a, b, c, d, e \in OtherFactors, sh \in MetricShapes :
       st = [ f \in DOMAIN InitState \cup { "interaction_metrics" } |->
                IF f = "interaction_metrics"
                  THEN [ factors |->
                           [ typing_speed_decline |-> t, message_length_trend |-> a,
                             response_time_trend |-> b, session_duration |-> c,
                             break_overdue |-> d, topic_drift |-> e ],
                         n_msgs |-> sh.n_msgs, avg_len |-> sh.avg_len,
                         msg_trend |-> sh.msg_trend ]
                  ELSE InitState[f] ]
  /\ sess = InitSession
  /\ running = { }
  /\ writes = << >>
  /\ gstatus = "none"
  /\ pc = "idle"
  /\ turn = 0
  /\ ret = [ kind |-> "none", text |-> NoResponse ]
  /\ hist = InitHist

\* cognitive_predictor.py:182-230  the predictor scores the metrics; ret
\* keeps the overall score _compute_crash_score returned
CrashPredict ==
  /\ ret.kind = "none"
  /\ hist.cogWrites < MaxCogPasses
  /\ st' = PredictorOnMetrics(st, st.interaction_metrics, turn + 1)
  /\ ret' = [ kind |-> "crash_score",
              text |-> ComputeCrashScore(st.interaction_metrics.factors) ]
  /\ turn' = turn + 1
  /\ hist' = [ hist EXCEPT !.cogWrites = @ + 1,
                           !.runs["cognitive_predictor"] = @ + 1 ]
  /\ UNCHANGED << sess, running, writes, gstatus, pc >>

\* the typing speed declines further, nothing else changes, and the
\* predictor scores the metrics again
TypingDeclines ==
  /\ ret.kind = "crash_score"
  /\ hist.cogWrites < MaxCogPasses
  /\ \E t \in TypingFactors :
       /\ t > st.interaction_metrics.factors["typing_speed_decline"]
       /\ LET m == [ st.interaction_metrics EXCEPT
                       !.factors["typing_speed_decline"] = t ]
          IN  /\ st' = PredictorOnMetrics(
                         [ st EXCEPT !.interaction_metrics = m ], m, turn + 1)
              /\ ret' = [ kind |-> "crash_score",
                          text |-> ComputeCrashScore(m.factors) ]
  /\ turn' = turn + 1
  /\ hist' = [ hist EXCEPT !.cogWrites = @ + 1,
                           !.runs["cognitive_predictor"] = @ + 1 ]
  /\ UNCHANGED << sess, running, writes, gstatus, pc >>

CrashNext == CrashPredict \/ TypingDeclines

CrashSpec == CrashInit /\ [][CrashNext]_vars

\* C21: the overall crash score is in [0, 1], and when the typing speed
\* decline factor alone is raised, the other five factors fixed, the overall
\* score is not lower than before
C21_CrashScoreBoundedMonotone ==
  [][ /\ ret'.kind = "crash_score" => ret'.text \in 0..1000
      /\ ( /\ ret.kind = "crash_score"
           /\ ret'.kind = "crash_score"
           /\ st'.interaction_metrics.factors["typing_speed_decline"]
                > st.interaction_metrics.factors["typing_speed_decline"]
           /\ \A k \in DOMAIN WEIGHTS \ { "typing_speed_decline" } :
                st'.interaction_metrics.factors[k] = st.interaction_metrics.factors[k] )
         => ret'.text >= ret.text ]_vars

\* the typing factor was raised from below 0.5 to its top on metrics whose
\* other factors are partly high, and the score rose with it
C21_Witness ==
  /\ ret.kind = "crash_score"
  /\ hist.cogWrites = 2
  /\ st.interaction_metrics.factors["typing_speed_decline"] = 999
  /\ st.interaction_metrics.factors["message_length_trend"] = 600
  /\ st.interaction_metrics.factors["topic_drift"] = 0
  /\ ret.text = 250 + 120 + 200 + 100 + 150
  /\ st.cognitive_state.likelihood = 82


\* C22: the cognitive predictor never raises the energy level: for every
\* prior energy in 0..10 and every crash score the new level is at most the
\* prior one
C22_EnergyNeverIncreases ==
  [][ st'.cognitive_state.energy_level <= st.cognitive_state.energy_level ]_vars


\* ------------------------------------------------ the planner alone
MaxPlanPasses == 2    \* passes of the planner in PlanSpec

\* packages of the external generator: every known task type and an unknown
\* one, ritual and break lists from empty to long enough, the ritual section
\* present or missing, and a failed call
PlanGrid ==
  { [ kind |-> k, task_type |-> ty, est |-> 45, n_steps |-> 6,
      has_ritual |-> hr, n_env_prep |-> IF hr THEN ne ELSE 0,
      n_breaks |-> nb, labels_ok |-> TRUE ] :
      k \in { "json", "fail" },
      ty \in CannedTypes \cup { "cooking" },
      hr \in BOOLEAN, ne \in 0..4, nb \in 0..3 }

PlanInit ==
  /\ st = InitState
  /\ sess = InitSession
  /\ running = { }
  /\ writes = << >>
  /\ gstatus = "none"
  /\ pc = "idle"
  /\ turn = 0
  /\ ret = [ kind |-> "none", text |-> NoResponse ]
  /\ hist = InitHist

\* context_architect.py:234-371  the planner returns a task record
PlanReturns ==
  /\ hist.runs["context_architect"] < MaxPlanPasses
  /\ \E plan \in PlanGrid :
       /\ ~ContextArchitectRaises(plan)
       /\ st' = Apply(st, ContextArchitectNode(st, plan, turn + 1))
  /\ turn' = turn + 1
  /\ hist' = [ hist EXCEPT !.runs["context_architect"] = @ + 1 ]
  /\ UNCHANGED << sess, running, writes, gstatus, pc, ret >>

\* context_architect.py:317  the planner raises and returns nothing
PlanRaises ==
  /\ hist.runs["context_architect"] < MaxPlanPasses
  /\ \E plan \in PlanGrid : ContextArchitectRaises(plan)
  /\ turn' = turn + 1
  /\ hist' = [ hist EXCEPT !.runs["context_architect"] = @ + 1 ]
  /\ ret' = [ kind |-> "error", text |-> NoResponse ]
  /\ UNCHANGED << st, sess, running, writes, gstatus, pc >>

PlanNext == PlanReturns \/ PlanRaises

PlanSpec == PlanInit /\ [][PlanNext]_vars

\* C23: every task record the planner returns has at least 3 environment
\* preparation steps and at least 2 break activities, and a list that is not
\* the generator's own is the canned list of the record's task type, the
\* "general" list for a task type without a canned list
C23_PlanRepaired ==
  st.current_task.present =>
    LET t == st.current_task
        key == IF t.task_type \in { "coding", "writing", "revision", "general" }
               THEN t.task_type ELSE "general"
    IN  /\ t.n_ritual >= 3
        /\ t.n_breaks >= 2
        /\ t.ritual_from # "generator" =>
             t.ritual_from = key /\ t.n_ritual = CannedRitual(key)
        /\ t.breaks_from # "generator" =>
             t.breaks_from = key /\ t.n_breaks = CannedBreaks(key)

\* a record for an unknown task type whose ritual and breaks were both
\* replaced by the "general" lists
C23_Witness ==
  /\ st.current_task.present
  /\ st.current_task.task_type = "cooking"
  /\ st.current_task.ritual_from = "general"
  /\ st.current_task.breaks_from = "general"
  /\ st.current_task.n_ritual = 5
  /\ st.current_task.n_breaks = 4
  /\ hist.runs["context_architect"] = 2


\* ------------------------------------------------ the intent router alone
MaxPriorCount == 7    \* interaction_count of the session before RouteSpec starts
MaxRoutePasses == 2   \* passes of the session manager in RouteSpec

\* app.py:325  what the user types, blank or not
RouteInputs == { [ empty |-> TRUE ], [ empty |-> FALSE ] }

RouteInit ==
  /\ \E n \in 0..MaxPriorCount : st = [ InitState EXCEPT !.interaction_count = n ]
  /\ sess = InitSession
  /\ running = { }
  /\ writes = << >>
  /\ gstatus = "none"
  /\ pc = "idle"
  /\ turn = 0
  /\ ret = [ kind |-> "none", text |-> "none" ]
  /\ hist = InitHist

\* session_manager.py:43-113 and graph.py:359-368  the session manager runs on
\* a new input and the conditional edge chooses what runs next; ret keeps the
\* label the classifier answered with
RouteTurn ==
  /\ hist.runs["session_manager"] < MaxRoutePasses
  /\ \E inp \in RouteInputs, label \in IntentLabels :
       LET s0 == [ st EXCEPT !.user_input =
                     [ empty |-> inp.empty, turn |-> turn + 1, directives |-> 0 ] ]
           s1 == Apply(s0, SessionManagerNode(s0, label))
       IN  /\ st' = s1
           /\ running' = Successors("session_manager", s1)
           /\ ret' = [ kind |-> "label", text |-> label ]
  /\ turn' = turn + 1
  /\ hist' = [ hist EXCEPT !.runs["session_manager"] = @ + 1 ]
  /\ UNCHANGED << sess, writes, gstatus, pc >>

RouteNext == RouteTurn

RouteSpec == RouteInit /\ [][RouteNext]_vars

\* C24: after the session manager exactly one node runs next: the planner for
\* start_task, the pattern detector for stuck and distracted, the time
\* advisory for check_in and take_break, the cognitive predictor otherwise;
\* a blank input and a label outside the known set give general_chat
C24_IntentRoutingTotal ==
  hist.runs["session_manager"] > 0 =>
    /\ st.intent \in { "start_task", "stuck", "distracted", "check_in",
                       "take_break", "general_chat" }
    /\ running =
         { CASE st.intent = "start_task" -> "context_architect"
             [] st.intent \in { "stuck", "distracted" } -> "pattern_interrupt"
             [] st.intent \in { "check_in", "take_break" } -> "time_reality"
             [] OTHER -> "cognitive_predictor" }
    /\ ( st.user_input.empty
         \/ ret.text \notin { "start_task", "stuck", "distracted", "check_in",
                              "take_break", "general_chat" } )
         => st.intent = "general_chat" /\ running = { "cognitive_predictor" }

\* the classifier answered with a label outside the known set on a non-blank
\* input, and the cognitive predictor is what runs next
C24_Witness ==
  /\ hist.runs["session_manager"] = 2
  /\ ~st.user_input.empty
  /\ ret.text = "unknown"
  /\ st.intent = "general_chat"
  /\ running = { "cognitive_predictor" }


\* C25: on a pass whose intent is start_task the time advisory has run, and
\* its text is in the state, by the time the synthesis node of that pass runs
C25_StartTaskRunsTimeAdvisory ==
  ( st.intent = "start_task" /\ hist.runs["response_generator"] > 0 ) =>
    ( hist.runs["time_reality"] > 0 /\ st.time_output # 0 )


\* ------------------------------------------------ the economy manager alone
MaxDuration == 65     \* largest estimated duration of the task in EconSpec
MaxDraws == 3         \* longest stream of random draws in EconSpec
MaxEconPasses == 1    \* passes of the economy manager in EconSpec

\* entropy of random.randint: the smallest gap, the largest gap, one between
Entropy == { 0, 7, 25 }

RECURSIVE Streams(_)
Streams(n) ==
  IF n = 0 THEN { << >> }
  ELSE { Append(r, e) : r \in Streams(n - 1), e \in Entropy }

RndGrid == UNION { Streams(n) : n \in 1..MaxDraws }

\* dopamine_manager.py:93-190  the node on draws rnd; the text it returns is
\* kept as the forecast and the recommendation it is built from
EconomyOnDraws(s, rnd, now) ==
  LET u == DopamineManagerNode(s, rnd, now)
  IN  [ Apply(s, u) EXCEPT
          !.dopamine_output =
             [ forecast |-> ComputeForecast(u.dopamine_economy.daily_balance),
               recommendation |->
                 GetRecommendation(u.dopamine_economy.daily_balance) ] ]

\* either every balance with no task (duration 60), or a full balance with a
\* task of every duration
EconInit ==
  /\ \/ \E b \in 0..BalanceMax :
          st = [ InitState EXCEPT
                   !.dopamine_economy = [ EmptyEconomy EXCEPT
                        !.present = TRUE, !.daily_balance = b ] ]
     \/ \E d \in 0..MaxDuration :
          st = [ InitState EXCEPT
                   !.current_task = [ EmptyTask EXCEPT
                        !.present = TRUE, !.estimated_duration = d ] ]
  /\ sess = InitSession
  /\ running = { }
  /\ writes = << >>
  /\ gstatus = "none"
  /\ pc = "idle"
  /\ turn = 0
  /\ ret = [ kind |-> "none", text |-> NoResponse ]
  /\ hist = InitHist

\* dopamine_manager.py:93-190  one pass of the economy manager
EconPass ==
  /\ hist.runs["dopamine_manager"] < MaxEconPasses
  /\ \E rnd \in RndGrid : st' = EconomyOnDraws(st, rnd, turn + 1)
  /\ turn' = turn + 1
  /\ hist' = [ hist EXCEPT !.runs["dopamine_manager"] = @ + 1 ]
  /\ UNCHANGED << sess, running, writes, gstatus, pc, ret >>

EconNext == EconPass

EconSpec == EconInit /\ [][EconNext]_vars

\* C26: for every balance in 0..100 the recommendation comes from the same
\* band of balances as the forecast label
C26_SameBand ==
  hist.runs["dopamine_manager"] > 0 =>
    st.dopamine_output.recommendation = st.dopamine_output.forecast


\* C27: the schedule the economy manager stores is strictly increasing, its
\* first offset and every gap between consecutive offsets are in 5..30, no
\* offset is beyond the total duration, fewer than 5 minutes are left after
\* the last offset, and next_reward_minutes is the first offset, 0 for an
\* empty schedule
C27_ScheduleShape ==
  hist.runs["dopamine_manager"] > 0 =>
    LET sch == st.dopamine_economy.reward_schedule
        total == IF st.current_task.present
                   THEN st.current_task.estimated_duration ELSE 60
        before(i) == IF i = 1 THEN 0 ELSE sch[i - 1]
        last == IF Len(sch) = 0 THEN 0 ELSE sch[Len(sch)]
    IN  /\ \A i \in 1..Len(sch) :
             /\ sch[i] - before(i) >= 5
             /\ sch[i] - before(i) <= 30
             /\ sch[i] <= total
        /\ total - last < 5
        /\ st.dopamine_economy.next_reward_minutes =
             IF Len(sch) = 0 THEN 0 ELSE sch[1]

\* a schedule of four offsets or more with a gap of 30, a gap of 5, and
\* between 1 and 4 minutes left after the last offset
C27_Witness ==
  /\ hist.runs["dopamine_manager"] > 0
  /\ st.current_task.present
  /\ LET sch == st.dopamine_economy.reward_schedule
     IN  /\ Len(sch) >= 4
         /\ sch[1] = 30
         /\ \E i \in 2..Len(sch) : sch[i] - sch[i - 1] = 5
         /\ st.current_task.estimated_duration - sch[Len(sch)] \in 1..4
         /\ st.dopamine_economy.next_reward_minutes = 30


\* C28: in a pass in which the detector's confidence is below 0.35 the
\* pattern text is empty and the detected label is recorded, nothing was
\* added to interventions_attempted, and no pattern_interrupted transaction
\* was credited
C28_LowConfidenceSilent ==
  ( /\ hist.verdict.kind = "ok"
    /\ hist.verdict.confidence < 35 ) =>
    /\ st.pattern_output = 0
    /\ st.pattern_detection.current_pattern = hist.verdict.pattern
    /\ st.pattern_detection.interventions_attempted
         = hist.pre.pattern_detection.interventions_attempted
    /\ \A i \in 1..Len(hist.newTx) :
         hist.newTx[i].event_type # "pattern_interrupted"

\* the second turn's detector found avoidance with confidence 0.2 after the
\* first turn's intervention was logged, and the economy manager has run
C28_Witness ==
  /\ hist.verdict.kind = "ok"
  /\ hist.verdict.confidence = 20
  /\ hist.verdict.pattern = "avoidance"
  /\ st.pattern_detection.current_pattern = "avoidance"
  /\ Len(st.pattern_detection.interventions_attempted) = 1
  /\ hist.runs["dopamine_manager"] = 1
  /\ pc = "idle"


\* C29: when the crash score is at least 0.7 the reset protocol names two
\* factors as evidence, and no factor it leaves out has a larger value than
\* one it names
C29_EvidenceIsTwoLargest ==
  ( ret.kind = "crash_score" /\ ret.text >= 700 ) =>
    LET ev == st.cognitive_output.evidence
        f == st.interaction_metrics.factors
        named == { ev[i] : i \in 1..Len(ev) }
    IN  /\ st.cognitive_output.kind = "reset_protocol"
        /\ Len(ev) = 2
        /\ Cardinality(named) = 2
        /\ \A k \in named : \A o \in DOMAIN f \ named : f[k] >= f[o]


\* ------------------------------------------------ both cycles in one run
\* verdicts the router sees in the runs of LoopSpec that start in the cycle
LoopConfidences == { 20, 50, 90 }

\* either the start of a session, or a pass that stands at the pattern
\* detector with a verdict the router can see
LoopInit ==
  \/ Init
  \/ /\ EscInit
     /\ st.pattern_detection.confidence \in LoopConfidences
     /\ st.pattern_detection.current_pattern \in { "none", "avoidance" }

LoopNext ==
  \/ Next
  \/ SeverityEdge
  \/ PatternEscalation

LoopSpec == LoopInit /\ [][LoopNext]_vars

\* C30: in every state pattern_escalation_level is 0, 1 or 2 and
\* response_retry_count is 0 or 1; a run of the escalation node raises the
\* level by exactly 1, a run of the retry node raises the retry count by
\* exactly 1, and a new turn starts with both at 0
C30_LoopCountersBounded ==
  /\ [] ( /\ st.pattern_escalation_level \in { 0, 1, 2 }
          /\ st.response_retry_count \in { 0, 1 } )
  /\ [][ /\ hist'.runs["pattern_escalation"] = hist.runs["pattern_escalation"] + 1
            => st'.pattern_escalation_level = st.pattern_escalation_level + 1
         /\ hist'.runs["response_retry"] = hist.runs["response_retry"] + 1
            => st'.response_retry_count = st.response_retry_count + 1
         /\ turn' = turn + 1
            => /\ st'.pattern_escalation_level = 0
               /\ st'.response_retry_count = 0 ]_vars

\* a pass that escalated twice and retried once: both counters at their top
C30_Witness ==
  /\ st.pattern_escalation_level = 2
  /\ st.response_retry_count = 1
  /\ hist.runs["pattern_escalation"] = 2
  /\ hist.runs["response_retry"] = 1
  /\ gstatus = "done"


\* C31: when run_agent returns the result of a turn, the interaction counter
\* of the session is one above its value before the turn, and the session
\* manager has run exactly once in the turn
C31_CounterPlusOne ==
  [][ ( pc # "idle" /\ pc' = "idle" /\ ret'.kind = "response" ) =>
        /\ sess'.interaction_count = sess.interaction_count + 1
        /\ sess'.interaction_count = hist.preSess.interaction_count + 1
        /\ hist.runs["session_manager"] = 1 ]_vars

\* a second turn that went through the retry cycle has returned
C31_Witness ==
  /\ pc = "idle"
  /\ ret.kind = "response"
  /\ turn = 2
  /\ hist.retries = 1
  /\ hist.preSess.interaction_count = 1
  /\ sess.interaction_count = 2


\* C32: on a take_break pass of a session in which the cognitive predictor has
\* warned (its last crash score was 0.45 or more, for which it produces an
\* alert), the economy manager records a took_break_before_crash of +8
C32_PreventiveBreakCredited ==
  ( /\ st.intent = "take_break"
    /\ st.cognitive_state.likelihood >= 45
    /\ hist.runs["dopamine_manager"] > 0 ) =>
    \E i \in 1..Len(hist.newTx) :
      /\ hist.newTx[i].event_type = "took_break_before_crash"
      /\ hist.newTx[i].points = 8


\* C33: the response run_agent returns for a turn was produced by the
\* synthesis node in that turn
C33_ResponseIsFresh ==
  ( pc = "idle" /\ ret.kind = "response" ) =>
    /\ ret.text.turn = turn
    /\ hist.runs["response_generator"] >= 1


\* C34: when the quality gate has routed to retry, the synthesis node starts
\* its second run with the same non-empty upstream texts as its first run
C34_RetrySeesSameInputs ==
  ( /\ Ready("response_generator")
    /\ hist.runs["response_retry"] = 1
    /\ hist.runs["response_generator"] = 1 ) =>
    NonEmptyOutputs(st) = hist.synthIn


\* C35: when run_agent returns the result of a turn, the message log is the
\* log before the turn followed by the user message of the turn and exactly
\* one assistant message, also when the turn went through the retry cycle
C35_OneMessageEach ==
  ( pc = "idle" /\ ret.kind = "response" ) =>
    LET m == st.messages
        p == hist.pre.messages
    IN  /\ Len(p) >= 1
        /\ p[Len(p)].type = "human"
        /\ p[Len(p)].turn = turn
        /\ Len(m) = Len(p) + 1
        /\ SubSeq(m, 1, Len(p)) = p
        /\ m[Len(m)].type = "ai"


\* ------------------------------------------------ gains of the economy
MaxGainPasses == 2    \* passes of the economy manager in GainSpec

\* one pass of the economy manager on an upstream state, with or without a
\* cognitive alert
GainPass ==
  /\ hist.runs["dopamine_manager"] < MaxGainPasses
  /\ \E up \in UpstreamSamples, alert \in BOOLEAN, rnd \in RndSamples :
       LET now == turn + 1
           s2 == [ WithUpstream(st, up, now) EXCEPT
                     !.cognitive_output = IF alert THEN now ELSE 0 ]
       IN  /\ st' = Apply(s2, DopamineManagerNode(s2, rnd, now))
           /\ turn' = now
           /\ hist' = [ hist EXCEPT
                          !.runs["dopamine_manager"] = @ + 1,
                          !.newTx = NewTransactions(s2, now),
                          !.ledgerSum = @ + SumPoints(NewTransactions(s2, now)) ]
  /\ UNCHANGED << sess, running, writes, gstatus, pc, ret >>

GainNext == GainPass

GainSpec == EconInit /\ [][GainNext]_vars

\* C36: every transaction the economy manager records is a task_started,
\* pattern_interrupted, small_milestone or took_break_before_crash with a
\* delta of 0 or more, and no pass lowers the daily balance
C36_OnlyGains ==
  [][ LET before == IF st.dopamine_economy.present
                      THEN st.dopamine_economy.daily_balance ELSE 100
          log == st'.dopamine_economy.transactions
      IN  /\ st'.dopamine_economy.daily_balance >= before
          /\ \A i \in 1..Len(log) :
               /\ log[i].points >= 0
               /\ log[i].event_type \in
                    { "task_started", "pattern_interrupted", "small_milestone",
                      "took_break_before_crash" } ]_vars

\* from a balance of 50: a task started at low energy, then a preventive break
C36_Witness ==
  /\ hist.runs["dopamine_manager"] = 2
  /\ Len(st.dopamine_economy.transactions) = 2
  /\ st.dopamine_economy.transactions[1].event_type = "task_started"
  /\ st.dopamine_economy.transactions[1].points = 22
  /\ st.dopamine_economy.transactions[2].event_type = "took_break_before_crash"
  /\ st.dopamine_economy.transactions[2].points = 8
  /\ st.dopamine_economy.daily_balance = 80


\* ------------------------------------------------ breaks and the clock
\* state.py:39  last_break = None; times are minutes on the session's clock
NoTime == -1

\* utils/metrics.py:34-52  should_suggest_break; now is the clock
ShouldSuggestBreak(session_start, last_break, threshold_minutes, now) ==
  IF last_break # NoTime
    THEN [ needs_break |-> now - last_break >= threshold_minutes,
           minutes |-> now - last_break ]
  ELSE IF session_start # NoTime
    THEN [ needs_break |-> now - session_start >= threshold_minutes,
           minutes |-> now - session_start ]
  ELSE [ needs_break |-> FALSE, minutes |-> 0 ]

\* a predictor that hands the session start to should_suggest_break
BreakCheck_FromSessionStart(m, threshold_minutes) ==
  ShouldSuggestBreak(m.session_start, m.last_break, threshold_minutes, m.clock)

\* cognitive_predictor.py:88,169  should_suggest_break(None, metrics.last_break, ...)
BreakCheck(m, threshold_minutes) ==
  ShouldSuggestBreak(NoTime, m.last_break, threshold_minutes, m.clock)

\* cognitive_predictor.py:87-92  factor 5, in thousandths
BreakOverdueFactor(m) ==
  LET r == BreakCheck(m, 45)
  IN  IF r.needs_break THEN Min(1000, ((r.minutes - 45) * 1000) \div 45) ELSE 0

\* minutes of session at which the predictor is run in BreakSpec
SessionMinutes == { 0, 30, 60, 90, 120, 240 }

\* cognitive_predictor.py:80-85  factor 4, 1 / (1 + exp(-(t - 90) / 20)) in
\* thousandths at the minutes of SessionMinutes
SessionDurationFactor(session_minutes) ==
  CASE session_minutes <= 0 -> 0
    [] session_minutes = 30 -> 47
    [] session_minutes = 60 -> 182
    [] session_minutes = 90 -> 500
    [] session_minutes = 120 -> 818
    [] OTHER -> 999

\* cognitive_predictor.py:182-230  the node on metrics with timestamps: the
\* two factors that depend on the clock are computed, then the score, the
\* focus and the intervention
PredictorOnClock(s, m, now) ==
  LET m2 == [ m EXCEPT
                !.factors["session_duration"] =
                   SessionDurationFactor(m.clock - m.session_start),
                !.factors["break_overdue"] = BreakOverdueFactor(m) ]
  IN  PredictorWith([ s EXCEPT !.interaction_metrics = m2 ], m2,
                    BreakCheck(m, 60).needs_break, now)

\* a session that started at 0, the clock at one of SessionMinutes, no break
\* or a break some minutes ago, and the factors the messages yield
BreakInit ==
  /\ \E now \in SessionMinutes,
        ago \in { NoTime, 0, 44, 45, 59, 60, 90, 200 },
        t \in { 0, 500 }, e \in { 0, 600 }, sh \in MetricShapes :
       /\ ago <= now
       /\ st = [ f \in DOMAIN InitState \cup { "interaction_metrics" } |->
                   IF f = "interaction_metrics"
                     THEN [ factors |->
                              [ typing_speed_decline |-> t, message_length_trend |-> 0,
                                response_time_trend |-> 0, session_duration |-> 0,
                                break_overdue |-> 0, topic_drift |-> e ],
                            n_msgs |-> sh.n_msgs, avg_len |-> sh.avg_len,
                            msg_trend |-> sh.msg_trend,
                            session_start |-> 0, clock |-> now,
                            last_break |-> IF ago = NoTime THEN NoTime ELSE now - ago ]
                     ELSE InitState[f] ]
  /\ sess = InitSession
  /\ running = { }
  /\ writes = << >>
  /\ gstatus = "none"
  /\ pc = "idle"
  /\ turn = 0
  /\ ret = [ kind |-> "none", text |-> NoResponse ]
  /\ hist = InitHist

\* cognitive_predictor.py:182-230  one pass of the predictor
BreakPredict ==
  /\ hist.cogWrites < MaxCogPasses
  /\ st' = PredictorOnClock(st, st.interaction_metrics, turn + 1)
  /\ turn' = turn + 1
  /\ hist' = [ hist EXCEPT !.cogWrites = @ + 1,
                           !.runs["cognitive_predictor"] = @ + 1 ]
  /\ UNCHANGED << sess, running, writes, gstatus, pc, ret >>

BreakNext == BreakPredict

BreakSpec == BreakInit /\ [][BreakNext]_vars

\* C37: when no break has been recorded, the break-overdue factor is 0 and
\* the predictor produces no hyperfocus nudge, however long the session is
C37_NoBreakNoNudge ==
  ( hist.cogWrites > 0 /\ st.interaction_metrics.last_break = NoTime ) =>
    /\ st.interaction_metrics.factors["break_overdue"] = 0
    /\ st.cognitive_output.kind # "hyperfocus"

\* four hours into a session without a break, focus classified as
\* hyperfocus, and no text produced
C37_Witness ==
  /\ hist.cogWrites > 0
  /\ st.interaction_metrics.last_break = NoTime
  /\ st.interaction_metrics.clock - st.interaction_metrics.session_start = 240
  /\ st.cognitive_state.focus_level = "hyperfocus"
  /\ st.cognitive_output.kind = "none"

=============================================================================
